---- MODULE Spec2Model ----
(***************************************************************************)
(* Bed packing and plate rendering of personaliser-public:                 *)
(* backend/app/packer/rect_packer.py and backend/app/layout_engine.        *)
(*                                                                         *)
(* pack_paginated and pack_first_fit are modelled statement by statement   *)
(* as a state machine over their local variables.  Lengths are integral    *)
(* millimetres (the callers and the tests pass whole numbers), so Python's *)
(* float arithmetic is exact and is modelled by integer arithmetic.  Rect  *)
(* ids are Python strings of digits; they are modelled as sequences of     *)
(* digits and compared as Python compares strings.                         *)
(*                                                                         *)
(* renderPlateSVG is modelled tile by tile.  The document is the list of   *)
(* the SVG primitives in the order in which the code writes them, each a   *)
(* record of its tag and attributes.                                       *)
(***************************************************************************)
EXTENDS Integers, Sequences, FiniteSets

\* ------------------------------------------------------------------ bounds

\* longest list of rects a caller passes
MaxRects == 3

\* largest gutter
MaxGutter == 1

\* widths and heights of the rects
Sides == 1..2

\* margins of the bed
Margins == 0..1

\* the bed, (bed_w, bed_h): at most two of the larger rects in a row, two rows
BedSize == <<4, 3>>

\* ------------------------------------------------------------- value types

RECURSIVE Str(_)
\* str(idx) of a non-negative int: its decimal digits
Str(n) == IF n < 10 THEN <<n>> ELSE Str(n \div 10) \o <<n % 10>>

\* the footprints w x h of the rects
Shape == Sides \X Sides

\* Rect(id=str(idx), w=..., h=...)
Rect(idx, w, h) == [id |-> Str(idx), w |-> w, h |-> h]

PlacedRect(r, x, y) == [id |-> r.id, w |-> r.w, h |-> r.h, x |-> x, y |-> y]

RectOf(p) == [id |-> p.id, w |-> p.w, h |-> p.h]

\* keepout tuples (kx, ky, kw, kh)
Keepout == {<<kx, 0, kw, kh>> : kx \in 0..1, kw \in 1..2, kh \in {1, BedSize[2]}}

\* settings.DEFAULT_SEED
DefaultSeed == 42

\* the seeds a request may carry (GenerateRequest.seed)
Seeds == {DefaultSeed, 7}

\* ----------------------------------------------------------------- helpers

Max(a, b) == IF a >= b THEN a ELSE b

RECURSIVE StrLess(_, _)
\* Python str.__lt__: lexicographic by code point, a proper prefix is smaller
StrLess(a, b) ==
    IF b = <<>> THEN FALSE
    ELSE IF a = <<>> THEN TRUE
    ELSE IF Head(a) # Head(b) THEN Head(a) < Head(b)
    ELSE StrLess(Tail(a), Tail(b))

\* mutant: key=lambda r: -(r.w * r.h), the id left out of the key
KeyLess_AreaOnly(a, b) == -(a.w * a.h) < -(b.w * b.h)

\* mutant: ties broken by descending id
KeyLess_IdDescending(a, b) ==
    \/ -(a.w * a.h) < -(b.w * b.h)
    \/ /\ -(a.w * a.h) = -(b.w * b.h)
       /\ StrLess(b.id, a.id)

\* key=lambda r: (-(r.w * r.h), r.id), compared as Python compares tuples
KeyLess(a, b) ==
    \/ -(a.w * a.h) < -(b.w * b.h)
    \/ /\ -(a.w * a.h) = -(b.w * b.h)
       /\ StrLess(a.id, b.id)

RECURSIVE Insert(_, _)
\* x goes behind every element whose key is not greater: the sort is stable
Insert(x, s) ==
    IF s = <<>> THEN <<x>>
    ELSE IF KeyLess(x, Head(s)) THEN <<x>> \o s
    ELSE <<Head(s)>> \o Insert(x, Tail(s))

RECURSIVE sorted(_)
\* sorted(rects, key=...): a new list, the argument is left alone
sorted(rs) ==
    IF rs = <<>> THEN <<>>
    ELSE Insert(rs[Len(rs)], sorted(SubSeq(rs, 1, Len(rs) - 1)))

\* mutant: list.pop(0)
pop_head(s, i) == Tail(s)

\* list.pop(i) with a 0-based index
pop(s, i) == SubSeq(s, 1, i) \o SubSeq(s, i + 2, Len(s))

\* mutant: the keepout read as corners (x1, y1, x2, y2)
_overlaps_keepouts_corners(x, y, w, h, ks) ==
    \E n \in 1..Len(ks) :
        ~ \/ x + w <= ks[n][1]
          \/ x >= ks[n][3]
          \/ y + h <= ks[n][2]
          \/ y >= ks[n][4]

\* _overlaps_keepouts((x, y, w, h), keepouts)
_overlaps_keepouts(x, y, w, h, ks) ==
    \E n \in 1..Len(ks) :
        ~ \/ x + w <= ks[n][1]
          \/ x >= ks[n][1] + ks[n][3]
          \/ y + h <= ks[n][2]
          \/ y >= ks[n][2] + ks[n][4]

\* ------------------------------------------------------------------- state

VARIABLES
    fn,            \* the function the caller invokes
    rects,         \* the caller's list, passed as argument rects
    bed_w, bed_h, margin, gutter, keepouts, seed,   \* the other arguments
    rng,           \* random.Random(seed), identified by its seed
    remaining,     \* pack_paginated: sorted rects not yet placed
    rects_sorted,  \* pack_first_fit: sorted rects not yet placed
    beds,          \* pack_paginated: finished beds
    placed,        \* placements of the bed being filled
    warnings,      \* pack_first_fit: warnings
    cursor_x, cursor_y, row_height, i,
    template,      \* renderPlateSVG: the caller's TemplateJSON
    content,       \* renderPlateSVG: the caller's ContentJSON
    svg_parts,     \* renderPlateSVG: the document built so far
    row, col,      \* renderPlateSVG: the tile loop's indices
    pc,            \* position in the function body
    call,          \* 1: the caller's first invocation, 2: its second
    first,         \* arguments and result of the first invocation
    request        \* upload_csv: the form of the request, <<>> without one

vars == <<fn, rects, bed_w, bed_h, margin, gutter, keepouts, seed, rng,
          remaining, rects_sorted, beds, placed, warnings,
          cursor_x, cursor_y, row_height, i, template, content, svg_parts,
          row, col, pc, call, first, request>>

args == <<bed_w, bed_h, margin, gutter, keepouts>>

locals == <<cursor_x, cursor_y, row_height, i>>

\* the renderer's arguments and locals
render == <<template, content, svg_parts, row, col>>

\* the renderer's variables while a packer job runs
RenderIdle ==
    /\ template = <<>>
    /\ content = <<>>
    /\ svg_parts = <<>>
    /\ row = 0
    /\ col = 0

Fns == {"pack_paginated", "pack_first_fit"}

\* lists of at most n elements of S
SeqsUpTo(S, n) == UNION {[1..k -> S] : k \in 0..n}

InitPack ==
    /\ fn \in Fns
    /\ RenderIdle
    /\ \E sh \in SeqsUpTo(Shape, MaxRects) :
           rects = [k \in 1..Len(sh) |-> Rect(k - 1, sh[k][1], sh[k][2])]
    /\ bed_w = BedSize[1]
    /\ bed_h = BedSize[2]
    /\ margin \in Margins
    /\ gutter \in 0..MaxGutter
    /\ keepouts \in SeqsUpTo(Keepout, 1)
    /\ seed = DefaultSeed
    /\ rng = 0
    /\ remaining = <<>>
    /\ rects_sorted = <<>>
    /\ beds = <<>>
    /\ placed = <<>>
    /\ warnings = <<>>
    /\ cursor_x = 0
    /\ cursor_y = 0
    /\ row_height = 0
    /\ i = 0
    /\ pc = "call"
    /\ call = 1
    /\ first = <<>>
    /\ request = <<>>

\* ---------------------------------------------------------- pack_paginated

\* mutant: rng.shuffle(remaining) after the sort; the order drawn depends on
\* the seed
PP_Enter_Shuffle ==
    /\ pc = "call"
    /\ fn = "pack_paginated"
    /\ rng' = seed
    /\ remaining' = IF seed = DefaultSeed THEN sorted(rects)
                    ELSE [k \in 1..Len(rects) |-> sorted(rects)[Len(rects) + 1 - k]]
    /\ beds' = <<>>
    /\ pc' = "pp_beds"
    /\ UNCHANGED <<fn, request, rects, args, render, seed, rects_sorted, placed, warnings,
                   locals, call, first>>

\* rng = random.Random(seed); remaining = list(sorted(rects, ...)); beds = []
PP_Enter ==
    /\ pc = "call"
    /\ fn = "pack_paginated"
    /\ rng' = seed
    /\ remaining' = sorted(rects)
    /\ beds' = <<>>
    /\ pc' = "pp_beds"
    /\ UNCHANGED <<fn, request, rects, args, render, seed, rects_sorted, placed, warnings,
                   locals, call, first>>

\* mutant: the cursor is not put back to the top of the new bed
PP_Beds_NoReset ==
    /\ pc = "pp_beds"
    /\ IF remaining # <<>>
       THEN /\ placed' = <<>>
            /\ row_height' = 0
            /\ pc' = "pp_rows"
       ELSE /\ pc' = "done"
            /\ UNCHANGED <<placed, row_height>>
    /\ UNCHANGED <<fn, request, rects, args, render, seed, rng, remaining, rects_sorted, beds,
                   warnings, cursor_x, cursor_y, i, call, first>>

\* while remaining: placed = []; cursor_y = margin; row_height = 0.0
\* (loop exit: return beds)
PP_Beds ==
    /\ pc = "pp_beds"
    /\ IF remaining # <<>>
       THEN /\ placed' = <<>>
            /\ cursor_y' = margin
            /\ row_height' = 0
            /\ pc' = "pp_rows"
       ELSE /\ pc' = "done"
            /\ UNCHANGED <<placed, cursor_y, row_height>>
    /\ UNCHANGED <<fn, request, rects, args, render, seed, rng, remaining, rects_sorted, beds,
                   warnings, cursor_x, i, call, first>>

\* mutant: the cursor is not put back to the left margin at the start of a row
PP_Rows_NoReturn ==
    /\ pc = "pp_rows"
    /\ IF remaining # <<>> /\ cursor_y + row_height <= bed_h - margin
       THEN /\ row_height' = 0
            /\ i' = 0
            /\ pc' = "pp_scan"
            /\ UNCHANGED cursor_x
       ELSE /\ pc' = "pp_end_bed"
            /\ UNCHANGED <<cursor_x, row_height, i>>
    /\ UNCHANGED <<fn, request, rects, args, render, seed, rng, remaining, rects_sorted, beds,
                   placed, warnings, cursor_y, call, first>>

\* while remaining and cursor_y + row_height <= bed_h - margin:
\*     cursor_x = margin; row_height = 0.0; i = 0
PP_Rows ==
    /\ pc = "pp_rows"
    /\ IF remaining # <<>> /\ cursor_y + row_height <= bed_h - margin
       THEN /\ cursor_x' = margin
            /\ row_height' = 0
            /\ i' = 0
            /\ pc' = "pp_scan"
       ELSE /\ pc' = "pp_end_bed"
            /\ UNCHANGED <<cursor_x, row_height, i>>
    /\ UNCHANGED <<fn, request, rects, args, render, seed, rng, remaining, rects_sorted, beds,
                   placed, warnings, cursor_y, call, first>>

\* mutant: the placement is put at the head of the list
PP_Place_Prepend(r, x) ==
    /\ placed' = <<PlacedRect(r, x, cursor_y)>> \o placed
    /\ row_height' = Max(row_height, r.h)
    /\ cursor_x' = x + r.w + gutter
    /\ remaining' = pop(remaining, i)

\* mutant: the cursor moves on by the rect's width only
PP_Place_NoGutter(r, x) ==
    /\ placed' = Append(placed, PlacedRect(r, x, cursor_y))
    /\ row_height' = Max(row_height, r.h)
    /\ cursor_x' = x + r.w
    /\ remaining' = pop(remaining, i)

\* placed.append(PlacedRect(...)); row_height = max(row_height, r.h)
\* cursor_x += r.w + gutter; remaining.pop(i)       (r at x, the cursor)
PP_Place(r, x) ==
    /\ placed' = Append(placed, PlacedRect(r, x, cursor_y))
    /\ row_height' = Max(row_height, r.h)
    /\ cursor_x' = x + r.w + gutter
    /\ remaining' = pop(remaining, i)

\* one pass of "while i < len(remaining)" up to the keepout test
PP_Scan ==
    /\ pc = "pp_scan"
    /\ IF i < Len(remaining)
       THEN LET r == remaining[i + 1] IN
            IF cursor_x + r.w <= bed_w - margin /\ cursor_y + r.h <= bed_h - margin
            THEN IF _overlaps_keepouts(cursor_x, cursor_y, r.w, r.h, keepouts)
                 THEN /\ pc' = "pp_move"
                      /\ UNCHANGED <<placed, row_height, cursor_x, remaining, i>>
                 ELSE /\ PP_Place(r, cursor_x)
                      /\ pc' = "pp_scan"
                      /\ UNCHANGED i
            ELSE /\ i' = i + 1
                 /\ pc' = "pp_scan"
                 /\ UNCHANGED <<placed, row_height, cursor_x, remaining>>
       ELSE /\ pc' = "pp_row_end"
            /\ UNCHANGED <<placed, row_height, cursor_x, remaining, i>>
    /\ UNCHANGED <<fn, request, rects, args, render, seed, rng, rects_sorted, beds, warnings,
                   cursor_y, call, first>>

\* "while cursor_x + r.w <= bed_w - margin" of the keepout mover: the test;
\* on exit moved is False: i += 1; continue
PP_Move ==
    /\ pc = "pp_move"
    /\ LET r == remaining[i + 1] IN
       IF cursor_x + r.w <= bed_w - margin
       THEN /\ pc' = "pp_move_body"
            /\ UNCHANGED i
       ELSE /\ i' = i + 1
            /\ pc' = "pp_scan"
    /\ UNCHANGED <<fn, request, rects, args, render, seed, rng, remaining, rects_sorted, beds,
                   placed, warnings, cursor_x, cursor_y, row_height, call, first>>

\* cursor_x += gutter; if the candidate is clear: moved = True; break, and the
\* rect is placed
PP_MoveBody ==
    /\ pc = "pp_move_body"
    /\ LET r == remaining[i + 1] IN
       IF ~_overlaps_keepouts(cursor_x + gutter, cursor_y, r.w, r.h, keepouts)
       THEN /\ PP_Place(r, cursor_x + gutter)
            /\ pc' = "pp_scan"
       ELSE /\ cursor_x' = cursor_x + gutter
            /\ pc' = "pp_move"
            /\ UNCHANGED <<placed, row_height, remaining>>
    /\ UNCHANGED <<fn, request, rects, args, render, seed, rng, rects_sorted, beds, warnings,
                   cursor_y, i, call, first>>

\* if row_height == 0.0: cursor_y += gutter  else: cursor_y += row_height + gutter
\* if cursor_y > bed_h - margin: break
PP_RowEnd ==
    /\ pc = "pp_row_end"
    /\ cursor_y' = IF row_height = 0 THEN cursor_y + gutter
                   ELSE cursor_y + row_height + gutter
    /\ pc' = IF cursor_y' > bed_h - margin THEN "pp_end_bed" ELSE "pp_rows"
    /\ UNCHANGED <<fn, request, rects, args, render, seed, rng, remaining, rects_sorted, beds,
                   placed, warnings, cursor_x, row_height, i, call, first>>

\* mutant: a bed that stayed empty is not appended
PP_EndBed_DropEmpty ==
    /\ pc = "pp_end_bed"
    /\ beds' = IF placed = <<>> THEN beds ELSE Append(beds, placed)
    /\ pc' = IF placed = <<>> THEN "done" ELSE "pp_beds"
    /\ UNCHANGED <<fn, request, rects, args, render, seed, rng, remaining, rects_sorted,
                   placed, warnings, locals, call, first>>

\* mutant: the call ends with its first bed
PP_EndBed_OneBed ==
    /\ pc = "pp_end_bed"
    /\ beds' = Append(beds, placed)
    /\ pc' = "done"
    /\ UNCHANGED <<fn, request, rects, args, render, seed, rng, remaining, rects_sorted,
                   placed, warnings, locals, call, first>>

\* beds.append(placed); if not placed: break
PP_EndBed ==
    /\ pc = "pp_end_bed"
    /\ beds' = Append(beds, placed)
    /\ pc' = IF placed = <<>> THEN "done" ELSE "pp_beds"
    /\ UNCHANGED <<fn, request, rects, args, render, seed, rng, remaining, rects_sorted,
                   placed, warnings, locals, call, first>>

pack_paginated ==
    \/ PP_Enter
    \/ PP_Beds
    \/ PP_Rows
    \/ PP_Scan
    \/ PP_Move
    \/ PP_MoveBody
    \/ PP_RowEnd
    \/ PP_EndBed

\* ---------------------------------------------------------- pack_first_fit

\* mutant: rects.sort(key=...) in place, rects_sorted the caller's own list
FF_Enter_InPlace ==
    /\ pc = "call"
    /\ fn = "pack_first_fit"
    /\ rng' = seed
    /\ rects' = sorted(rects)
    /\ rects_sorted' = sorted(rects)
    /\ placed' = <<>>
    /\ warnings' = <<>>
    /\ cursor_y' = margin
    /\ row_height' = 0
    /\ pc' = "ff_rows"
    /\ UNCHANGED <<fn, request, args, render, seed, remaining, beds, cursor_x, i,
                   call, first>>

\* rng = random.Random(seed); rects_sorted = sorted(rects, ...); placed = []
\* warnings = []; cursor_y = margin; row_height = 0.0
FF_Enter ==
    /\ pc = "call"
    /\ fn = "pack_first_fit"
    /\ rng' = seed
    /\ rects_sorted' = sorted(rects)
    /\ placed' = <<>>
    /\ warnings' = <<>>
    /\ cursor_y' = margin
    /\ row_height' = 0
    /\ pc' = "ff_rows"
    /\ UNCHANGED <<fn, request, rects, args, render, seed, remaining, beds, cursor_x, i,
                   call, first>>

\* while rects_sorted and cursor_y + row_height <= bed_h - margin:
\*     cursor_x = margin; row_height = 0.0; i = 0
FF_Rows ==
    /\ pc = "ff_rows"
    /\ IF rects_sorted # <<>> /\ cursor_y + row_height <= bed_h - margin
       THEN /\ cursor_x' = margin
            /\ row_height' = 0
            /\ i' = 0
            /\ pc' = "ff_scan"
       ELSE /\ pc' = "ff_return"
            /\ UNCHANGED <<cursor_x, row_height, i>>
    /\ UNCHANGED <<fn, request, rects, args, render, seed, rng, remaining, rects_sorted, beds,
                   placed, warnings, cursor_y, call, first>>

\* placed.append(PlacedRect(...)); row_height = max(row_height, r.h)
\* cursor_x += r.w + gutter; rects_sorted.pop(i)    (r at x, the cursor)
FF_Place(r, x) ==
    /\ placed' = Append(placed, PlacedRect(r, x, cursor_y))
    /\ row_height' = Max(row_height, r.h)
    /\ cursor_x' = x + r.w + gutter
    /\ rects_sorted' = pop(rects_sorted, i)

\* one pass of "while i < len(rects_sorted)" up to the keepout test
FF_Scan ==
    /\ pc = "ff_scan"
    /\ IF i < Len(rects_sorted)
       THEN LET r == rects_sorted[i + 1] IN
            IF cursor_x + r.w <= bed_w - margin /\ cursor_y + r.h <= bed_h - margin
            THEN IF _overlaps_keepouts(cursor_x, cursor_y, r.w, r.h, keepouts)
                 THEN /\ pc' = "ff_move"
                      /\ UNCHANGED <<placed, row_height, cursor_x, rects_sorted, i>>
                 ELSE /\ FF_Place(r, cursor_x)
                      /\ pc' = "ff_scan"
                      /\ UNCHANGED i
            ELSE /\ i' = i + 1
                 /\ pc' = "ff_scan"
                 /\ UNCHANGED <<placed, row_height, cursor_x, rects_sorted>>
       ELSE /\ pc' = "ff_row_end"
            /\ UNCHANGED <<placed, row_height, cursor_x, rects_sorted, i>>
    /\ UNCHANGED <<fn, request, rects, args, render, seed, rng, remaining, beds, warnings,
                   cursor_y, call, first>>

\* "while cursor_x + r.w <= bed_w - margin" of the keepout mover: the test;
\* on exit moved is False: i += 1; continue
FF_Move ==
    /\ pc = "ff_move"
    /\ LET r == rects_sorted[i + 1] IN
       IF cursor_x + r.w <= bed_w - margin
       THEN /\ pc' = "ff_move_body"
            /\ UNCHANGED i
       ELSE /\ i' = i + 1
            /\ pc' = "ff_scan"
    /\ UNCHANGED <<fn, request, rects, args, render, seed, rng, remaining, rects_sorted, beds,
                   placed, warnings, cursor_x, cursor_y, row_height, call, first>>

\* cursor_x += gutter; if the candidate is clear: moved = True; break, and the
\* rect is placed
FF_MoveBody ==
    /\ pc = "ff_move_body"
    /\ LET r == rects_sorted[i + 1] IN
       IF ~_overlaps_keepouts(cursor_x + gutter, cursor_y, r.w, r.h, keepouts)
       THEN /\ FF_Place(r, cursor_x + gutter)
            /\ pc' = "ff_scan"
       ELSE /\ cursor_x' = cursor_x + gutter
            /\ pc' = "ff_move"
            /\ UNCHANGED <<placed, row_height, rects_sorted>>
    /\ UNCHANGED <<fn, request, rects, args, render, seed, rng, remaining, beds, warnings,
                   cursor_y, i, call, first>>

\* mutant: the rows of the single bed follow each other without gutter
FF_RowEnd_NoGutter ==
    /\ pc = "ff_row_end"
    /\ cursor_y' = IF row_height = 0 THEN cursor_y + gutter
                   ELSE cursor_y + row_height
    /\ pc' = IF cursor_y' > bed_h - margin THEN "ff_return" ELSE "ff_rows"
    /\ UNCHANGED <<fn, request, rects, args, render, seed, rng, remaining, rects_sorted, beds,
                   placed, warnings, cursor_x, row_height, i, call, first>>

\* if row_height == 0.0: cursor_y += gutter  else: cursor_y += row_height + gutter
\* if cursor_y > bed_h - margin: break
FF_RowEnd ==
    /\ pc = "ff_row_end"
    /\ cursor_y' = IF row_height = 0 THEN cursor_y + gutter
                   ELSE cursor_y + row_height + gutter
    /\ pc' = IF cursor_y' > bed_h - margin THEN "ff_return" ELSE "ff_rows"
    /\ UNCHANGED <<fn, request, rects, args, render, seed, rng, remaining, rects_sorted, beds,
                   placed, warnings, cursor_x, row_height, i, call, first>>

\* mutant: no warning for the rects left over
FF_Return_Silent ==
    /\ pc = "ff_return"
    /\ pc' = "done"
    /\ UNCHANGED <<fn, request, rects, args, render, seed, rng, remaining, rects_sorted, beds,
                   placed, warnings, locals, call, first>>

\* if rects_sorted: warnings.append("OVERFLOW"); return placed, warnings
FF_Return ==
    /\ pc = "ff_return"
    /\ warnings' = IF rects_sorted # <<>> THEN Append(warnings, "OVERFLOW")
                   ELSE warnings
    /\ pc' = "done"
    /\ UNCHANGED <<fn, request, rects, args, render, seed, rng, remaining, rects_sorted, beds,
                   placed, locals, call, first>>

pack_first_fit ==
    \/ FF_Enter
    \/ FF_Rows
    \/ FF_Scan
    \/ FF_Move
    \/ FF_MoveBody
    \/ FF_RowEnd
    \/ FF_Return

\* ------------------------------------------------ layout engine: utilities

\* Python's None in an optional string field
None == "None"

\* A Python str that the renderer inspects is a list of chunks: a chunk is one
\* of the characters the code looks for ("\n", "&", "<", ">", a quote) or a run
\* of other characters.

\* utils.escape_xml
escape_xml(text) ==
    [k \in DOMAIN text |->
        CASE text[k] = "&" -> "&amp;"
          [] text[k] = "<" -> "&lt;"
          [] text[k] = ">" -> "&gt;"
          [] text[k] = "\"" -> "&quot;"
          [] text[k] = "'" -> "&apos;"
          [] OTHER -> text[k]]

\* str.split('\n')
RECURSIVE split(_)

split(text) ==
    LET nl == {k \in DOMAIN text : text[k] = "\n"}
    IN  IF nl = {} THEN <<text>>
        ELSE LET k == CHOOSE n \in nl : \A m \in nl : n <= m
             IN  <<SubSeq(text, 1, k - 1)>>
                     \o split(SubSeq(text, k + 1, Len(text)))

RECURSIVE split_words(_)

\* the segments of the text between newlines and blanks
split_words(text) ==
    LET breaks == {k \in DOMAIN text : text[k] \in {"\n", " "}}
        first_break == CHOOSE k \in breaks : \A j \in breaks : k <= j
    IN  IF breaks = {} THEN <<text>>
        ELSE <<SubSeq(text, 1, first_break - 1)>>
                 \o split_words(SubSeq(text, first_break + 1, Len(text)))

\* mutant: a text in a box narrower than 6 mm is also wrapped at its blanks
wrap_text_by_width(text, max_width_mm, font_size_pt, font_family) ==
    IF max_width_mm < 6 THEN split_words(text) ELSE split(text)

\* utils.wrap_text
wrap_text(text, max_width_mm, font_size_pt, font_family) == split(text)

\* A length that is no whole number of mm is the fraction <<numerator,
\* denominator>>.

\* utils.pt_to_mm: pt * 25.4 / 72.0
pt_to_mm(pt) == <<pt * 254, 720>>

\* utils.calculate_line_height: pt_to_mm(font_size_pt) * 1.2
calculate_line_height(font_size_pt) ==
    <<pt_to_mm(font_size_pt)[1] * 12, pt_to_mm(font_size_pt)[2] * 10>>

\* a whole number of mm plus a fraction
AddMm(mm, q) == <<mm * q[2] + q[1], q[2]>>

\* mutant: ids drawn from a counter that runs on from call to call
generate_unique_id_counter(prefix, r, c, element_id) ==
    <<prefix, r, c, element_id, call>>

\* utils.generate_unique_id: "prefix-r<row>-c<col>[-element_id]"
generate_unique_id(prefix, r, c, element_id) ==
    IF element_id # "" THEN <<prefix, r, c, element_id>> ELSE <<prefix, r, c>>

\* '\n'.join(parts) of rendered pieces: one list of primitives
RECURSIVE join(_)

join(parts) == IF parts = <<>> THEN <<>> ELSE Head(parts) \o join(Tail(parts))

\* an exception leaving a render function
Raise(exc) == <<[tag |-> "raise", exc |-> exc]>>

Raised(out) == \E k \in DOMAIN out : out[k].tag = "raise"

\* the exception raised first
Exception(out) ==
    out[CHOOSE k \in DOMAIN out :
            /\ out[k].tag = "raise"
            /\ \A j \in 1..(k - 1) : out[j].tag # "raise"].exc

\* ------------------------------------------------ layout engine: anchoring

\* mutant: an anchor_to that is the id of no element is taken for the first
\* element
FindAnchor_Default(elements, anchor_to) ==
    LET hits == {k \in DOMAIN elements : elements[k].id = anchor_to}
    IN  IF hits = {} THEN 1 ELSE CHOOSE k \in hits : \A j \in hits : k <= j

\* the loop of calculate_element_position: the first element with the id, 0
\* if there is none
FindAnchor(elements, anchor_to) ==
    LET hits == {k \in DOMAIN elements : elements[k].id = anchor_to}
    IN  IF hits = {} THEN 0 ELSE CHOOSE k \in hits : \A j \in hits : k <= j

RECURSIVE calculate_element_position_width(_, _, _)

\* mutant: anchor_point bottom adds the target's width to y
calculate_element_position_width(element, elements, depth) ==
    LET own == [x |-> element.x_mm, y |-> element.y_mm, exc |-> None]
        a == FindAnchor(elements, element.anchor_to)
    IN  IF element.anchor_to \in {None, ""} THEN own
        ELSE IF a = 0 THEN own
        ELSE IF depth >= Len(elements)
        THEN [x |-> 0, y |-> 0, exc |-> "RecursionError"]
        ELSE LET anchor_element == elements[a]
                 p == calculate_element_position_width(anchor_element, elements,
                                                       depth + 1)
                 anchor_x ==
                     CASE element.anchor_point = "right" ->
                              p.x + anchor_element.w_mm
                       [] element.anchor_point = "center" ->
                              p.x + anchor_element.w_mm \div 2
                       [] OTHER -> p.x
                 anchor_y ==
                     CASE element.anchor_point = "bottom" ->
                              p.y + anchor_element.w_mm
                       [] element.anchor_point = "center" ->
                              p.y + anchor_element.h_mm \div 2
                       [] OTHER -> p.y
             IN  IF p.exc # None THEN p
                 ELSE [x |-> anchor_x + element.x_mm,
                       y |-> anchor_y + element.y_mm, exc |-> None]

RECURSIVE calculate_element_position(_, _, _)

\* renderer.calculate_element_position; depth counts the calls on the stack: a
\* chain that is still resolving after as many calls as the part has elements
\* runs round a cycle, recurses until the interpreter's limit and raises
\* RecursionError
calculate_element_position(element, elements, depth) ==
    LET own == [x |-> element.x_mm, y |-> element.y_mm, exc |-> None]
        a == FindAnchor(elements, element.anchor_to)
    IN  IF element.anchor_to \in {None, ""} THEN own
        ELSE IF a = 0 THEN own
        ELSE IF depth >= Len(elements)
        THEN [x |-> 0, y |-> 0, exc |-> "RecursionError"]
        ELSE LET anchor_element == elements[a]
                 p == calculate_element_position(anchor_element, elements,
                                                 depth + 1)
                 anchor_x ==
                     CASE element.anchor_point = "right" ->
                              p.x + anchor_element.w_mm
                       [] element.anchor_point = "center" ->
                              p.x + anchor_element.w_mm \div 2
                       [] OTHER -> p.x
                 anchor_y ==
                     CASE element.anchor_point = "bottom" ->
                              p.y + anchor_element.h_mm
                       [] element.anchor_point = "center" ->
                              p.y + anchor_element.h_mm \div 2
                       [] OTHER -> p.y
             IN  IF p.exc # None THEN p
                 ELSE [x |-> anchor_x + element.x_mm,
                       y |-> anchor_y + element.y_mm, exc |-> None]

\* ------------------------------------------------- layout engine: content

\* The values a slot holds for an element id: None, a str, a PhotoContent, a
\* dict or an int.
NoValue == [kind |-> "None"]

StrValue(s) == [kind |-> "str", s |-> s]

PhotoContent(file_url, scale, offset_x_mm, offset_y_mm) ==
    [kind |-> "PhotoContent", file_url |-> file_url, scale |-> scale,
     offset_x_mm |-> offset_x_mm, offset_y_mm |-> offset_y_mm]

DictValue(d) == [kind |-> "dict", d |-> d]

IntValue(n) == [kind |-> "int", n |-> n]

\* Python's truth value of a content value
Truthy(v) ==
    CASE v.kind = "None" -> FALSE
      [] v.kind = "str" -> v.s # <<>>
      [] v.kind = "int" -> v.n # 0
      [] v.kind = "dict" -> DOMAIN v.d # {}
      [] OTHER -> TRUE

\* dict.get(key, default)
Get(d, key, default) == IF key \in DOMAIN d THEN d[key] ELSE default

\* SlotContent.get_content: getattr(self, element_id, None); the declared
\* field slot_index is an attribute like the extra ones
get_content(slot, element_id) ==
    IF element_id = "slot_index" THEN IntValue(slot.slot_index)
    ELSE IF element_id \in DOMAIN slot.extra THEN slot.extra[element_id]
    ELSE NoValue

\* ContentJSON.get_slot: the first slot with the index; an Optional is the
\* list of the one value, or the empty list for None
get_slot(c, slot_index) ==
    LET hits == {k \in DOMAIN c.slots : c.slots[k].slot_index = slot_index}
    IN  IF hits = {} THEN <<>>
        ELSE <<c.slots[CHOOSE k \in hits : \A j \in hits : k <= j]>>

\* ---------------------------------------------------- layout engine: text

\* renderer.render_text_element; content is the slot's value or ""
render_text_element(element, cv, r, c) ==
    LET text ==
            IF ~Truthy(cv) THEN <<>> ELSE cv.s
        text_anchor ==
            CASE element.text_align = "left" -> "start"
              [] element.text_align = "center" -> "middle"
              [] element.text_align = "right" -> "end"
              [] OTHER -> "middle"
        text_x ==
            CASE element.text_align = "center" ->
                     element.x_mm + element.w_mm \div 2
              [] element.text_align = "right" -> element.x_mm + element.w_mm
              [] OTHER -> element.x_mm
        font_size_mm == pt_to_mm(element.font_size_pt)
        baseline_y == AddMm(element.y_mm, font_size_mm)
        element_id == generate_unique_id("text", r, c, element.id)
        lines == wrap_text(text, element.w_mm, element.font_size_pt,
                           element.font_family)
        line_height == calculate_line_height(element.font_size_pt)
    IN  \* str methods on a value that is no str: AttributeError
        IF Truthy(cv) /\ cv.kind # "str" THEN Raise("AttributeError")
        ELSE <<[tag |-> "text", id |-> element_id, x |-> text_x,
                y |-> baseline_y,
                font_family |-> escape_xml(element.font_family),
                font_size |-> element.font_size_pt,
                text_anchor |-> text_anchor, fill |-> "black"]>>
             \o (IF element.multiline
                 THEN [k \in 1..Len(lines) |->
                          [tag |-> "tspan", x |-> text_x,
                           dy |-> IF k = 1 THEN <<0, 1>> ELSE line_height,
                           text |-> escape_xml(lines[k])]]
                 ELSE <<[tag |-> "chars", text |-> escape_xml(text)]>>)
             \o <<[tag |-> "/text"]>>

\* --------------------------------------------------- layout engine: files

\* The files under settings.ASSETS_DIR, by relative path: the text of a file,
\* or None for one whose read fails.
Assets ==
    [p \in {<<"border", ".svg">>, <<"plain", ".svg">>, <<"locked", ".svg">>}
        |-> CASE p = <<"border", ".svg">> ->
                     <<"<svg", " ", "viewBox=\"", "0 0 140 90", "\"", ">",
                       "<path d=\"M0 0\"/>", "</svg>">>
              [] p = <<"plain", ".svg">> -> <<"<circle r=\"1\"/>">>
              [] OTHER -> <<None>>]

\* Path.exists
exists(path) == path \in DOMAIN Assets

\* mutant: a failing read is not caught, the file's text is taken as read
readable_unchecked(path) == TRUE

\* Path.read_text succeeds
readable(path) == Assets[path] # <<None>>

\* --------------------------------------------------- layout engine: image

\* ImageElement.clip_shape = None
NoClip == [kind |-> "None", radius_mm |-> 0]

\* the data URI of the light gray placeholder
Placeholder ==
    <<"data:image/svg+xml,%3Csvg xmlns=", "'", "http://www.w3.org/2000/svg",
      "'", "%3E%3Crect width=", "'", "100%25", "'", " height=", "'", "100%25",
      "'", " fill=", "'", "%23f0f0f0", "'", "/%3E%3C/svg%3E">>

\* An Optional[str] is its chunks, the empty list for None: the code only
\* tests such a value for truth, and None and "" are both false.

BuiltinFrames ==
    {<<"simple-gold">>, <<"simple-silver">>, <<"simple-black">>,
     <<"ornate-gold">>}

\* renderer.generate_inline_frame, with id="frame" replaced by the frame's id
generate_inline_frame(frame_type, width_mm, height_mm, radius_mm, border_width_mm, frame_id) ==
    LET stroke == CASE frame_type = <<"simple-silver">> -> "#C0C0C0"
                    [] frame_type = <<"simple-black">> -> "#000000"
                    [] OTHER -> "#FFD700"
    IN  IF frame_type = <<"ornate-gold">>
        THEN <<[tag |-> "g", id |-> frame_id],
               [tag |-> "rect", x |-> 0, y |-> 0, width |-> width_mm,
                height |-> height_mm, rx |-> radius_mm, fill |-> "none",
                stroke |-> stroke, stroke_width |-> border_width_mm],
               [tag |-> "rect", x |-> 2, y |-> 2, width |-> width_mm - 4,
                height |-> height_mm - 4, rx |-> Max(0, radius_mm - 2),
                fill |-> "none", stroke |-> stroke,
                stroke_width |-> "0.5", opacity |-> "0.6"],
               [tag |-> "/g"]>>
        ELSE <<[tag |-> "rect", id |-> frame_id, x |-> 0, y |-> 0,
                width |-> width_mm, height |-> height_mm, rx |-> radius_mm,
                fill |-> "none", stroke |-> stroke,
                stroke_width |-> border_width_mm]>>

\* the frame overlay of render_image_element
Frame(element, r, c) ==
    LET frame_id == generate_unique_id("frame", r, c, element.id)
        radius == IF element.clip_shape # NoClip
                  THEN element.clip_shape.radius_mm ELSE 0
        fallback ==
            <<[tag |-> "rect", id |-> frame_id, x |-> element.x_mm,
               y |-> element.y_mm, width |-> element.w_mm,
               height |-> element.h_mm, fill |-> "none", stroke |-> "gold",
               stroke_width |-> "1", rx |-> radius]>>
        frame_path == element.frame_source
    IN  IF element.frame_source \in BuiltinFrames
        THEN <<[tag |-> "g", translate |-> <<element.x_mm, element.y_mm>>]>>
             \o generate_inline_frame(element.frame_source, element.w_mm,
                                      element.h_mm, radius, "1.5", frame_id)
             \o <<[tag |-> "/g"]>>
        ELSE IF exists(frame_path)
        THEN IF readable(frame_path)
             THEN <<[tag |-> "svg", id |-> frame_id, x |-> element.x_mm,
                     y |-> element.y_mm, width |-> element.w_mm,
                     height |-> element.h_mm, viewBox |-> "0 0 100 100",
                     preserveAspectRatio |-> "none",
                     inner |-> Assets[frame_path]]>>
             ELSE <<[tag |-> "comment", text |-> <<"Frame load error">>]>>
                  \o fallback
        ELSE fallback

\* renderer.render_image_element
render_image_element(element, cv, r, c) ==
    LET url == CASE cv.kind = "PhotoContent" -> cv.file_url
                 [] cv.kind = "dict" ->
                        IF Get(cv.d, "file_url", <<>>) # <<>>
                        THEN cv.d["file_url"]
                        ELSE Get(cv.d, "photo_url", <<>>)
                 [] cv.kind = "str" -> cv.s
                 [] OTHER -> <<>>
        scale == CASE cv.kind = "PhotoContent" -> cv.scale
                   [] cv.kind = "dict" -> Get(cv.d, "scale", 1)
                   [] OTHER -> 1
        offset_x_mm == CASE cv.kind = "PhotoContent" -> cv.offset_x_mm
                         [] cv.kind = "dict" -> Get(cv.d, "offset_x_mm", 0)
                         [] OTHER -> 0
        offset_y_mm == CASE cv.kind = "PhotoContent" -> cv.offset_y_mm
                         [] cv.kind = "dict" -> Get(cv.d, "offset_y_mm", 0)
                         [] OTHER -> 0
        element_id == generate_unique_id("image", r, c, element.id)
        group_id == generate_unique_id("image-group", r, c, element.id)
        image_path == IF url = <<>> THEN Placeholder ELSE url
        clipped == element.clip_shape # NoClip
        clip_path_id == generate_unique_id("clip", r, c, element.id)
        center_x == element.x_mm + element.w_mm \div 2
        center_y == element.y_mm + element.h_mm \div 2
        transform_parts ==
            (IF offset_x_mm # 0 \/ offset_y_mm # 0
             THEN <<<<"translate", offset_x_mm, offset_y_mm>>>> ELSE <<>>)
            \o (IF scale # 1
                THEN <<<<"translate", center_x, center_y>>,
                       <<"scale", scale>>,
                       <<"translate", -center_x, -center_y>>>>
                ELSE <<>>)
        image ==
            [tag |-> "image", id |-> element_id, x |-> element.x_mm,
             y |-> element.y_mm, width |-> element.w_mm,
             height |-> element.h_mm, href |-> escape_xml(image_path),
             preserveAspectRatio |->
                 IF element.fit = "cover" THEN "xMidYMid slice"
                 ELSE "xMidYMid meet",
             transform |-> transform_parts,
             clip_path |-> IF clipped /\ transform_parts = <<>>
                           THEN <<clip_path_id>> ELSE <<>>]
    IN  <<[tag |-> "g", id |-> group_id]>>
        \o (IF clipped
            THEN <<[tag |-> "clipPath", id |-> clip_path_id]>>
                 \o (IF element.clip_shape.kind = "rounded_rect"
                     THEN <<[tag |-> "rect", x |-> element.x_mm,
                             y |-> element.y_mm, width |-> element.w_mm,
                             height |-> element.h_mm,
                             rx |-> element.clip_shape.radius_mm]>>
                     ELSE <<>>)
                 \o <<[tag |-> "/clipPath"]>>
            ELSE <<>>)
        \o (IF transform_parts # <<>> /\ clipped
            THEN <<[tag |-> "g", clip_path |-> <<clip_path_id>>]>>
                 \o <<image>> \o <<[tag |-> "/g"]>>
            ELSE <<image>>)
        \o (IF element.frame_source # <<>> THEN Frame(element, r, c)
            ELSE <<>>)
        \o <<[tag |-> "/g"]>>

\* ------------------------------------------------- layout engine: graphic

\* str.lower on the last chunk of a path
lower(chunk) ==
    CASE chunk = ".PNG" -> ".png"
      [] chunk = ".JPG" -> ".jpg"
      [] chunk = ".JPEG" -> ".jpeg"
      [] OTHER -> chunk

RECURSIVE strip(_)

\* str.strip
strip(s) ==
    IF s = <<>> THEN s
    ELSE IF Head(s) \in {" ", "\n"} THEN strip(Tail(s))
    ELSE IF s[Len(s)] \in {" ", "\n"} THEN strip(SubSeq(s, 1, Len(s) - 1))
    ELSE s

\* re.search(r'viewBox="([^"]+)"', svg_content): the group, or the default
ViewBox(svg_content) ==
    LET hits == {k \in DOMAIN svg_content :
                    /\ svg_content[k] = "viewBox=\""
                    /\ k + 2 <= Len(svg_content)
                    /\ svg_content[k + 1] # "\""
                    /\ svg_content[k + 2] = "\""}
    IN  IF hits = {} THEN "0 0 100 100"
        ELSE svg_content[(CHOOSE k \in hits : \A j \in hits : k <= j) + 1]

\* the content between the first ">" and the last "</svg>"
InnerContent(svg_content) ==
    LET gt == {k \in DOMAIN svg_content : svg_content[k] = ">"}
        close == {k \in DOMAIN svg_content : svg_content[k] = "</svg>"}
        svg_start == CHOOSE k \in gt : \A j \in gt : k <= j
        svg_end == CHOOSE k \in close : \A j \in close : k >= j
    IN  IF (\E k \in DOMAIN svg_content : svg_content[k] = "<svg")
           /\ gt # {} /\ close # {}
        THEN strip(SubSeq(svg_content, svg_start + 1, svg_end - 1))
        ELSE svg_content

\* renderer.render_graphic_element; dv is the slot's value for the element
render_graphic_element(element, r, c, dv) ==
    LET element_id == generate_unique_id("graphic", r, c, element.id)
        source == IF Truthy(dv) THEN dv.s ELSE element.source
        svg_content ==
            IF source # <<>> /\ Head(source) = "<svg" THEN source
            ELSE IF source # <<>> /\ Head(source) \in {"http://", "https://"}
            THEN <<>>
            ELSE IF exists(source) /\ readable(source) THEN Assets[source]
            ELSE <<>>
    IN  \* source.lower() on a value that is no str: AttributeError
        IF Truthy(dv) /\ dv.kind # "str" THEN Raise("AttributeError")
        \* GraphicElement has no width_mm: AttributeError
        ELSE IF source # <<>>
                /\ lower(source[Len(source)]) \in {".png", ".jpg", ".jpeg"}
        THEN Raise("AttributeError")
        ELSE IF svg_content # <<>>
        THEN <<[tag |-> "svg", id |-> element_id, x |-> element.x_mm,
                y |-> element.y_mm, width |-> element.w_mm,
                height |-> element.h_mm, viewBox |-> ViewBox(svg_content),
                preserveAspectRatio |-> "xMidYMid meet",
                inner |-> InnerContent(svg_content)]>>
        ELSE <<[tag |-> "comment",
                text |-> <<"Graphic not found: ">>
                             \o escape_xml(element.source)],
               [tag |-> "rect", id |-> element_id, x |-> element.x_mm,
                y |-> element.y_mm, width |-> element.w_mm,
                height |-> element.h_mm, fill |-> "none",
                stroke |-> "#000000", stroke_width |-> "0.5"]>>

\* ---------------------------------------------------- layout engine: part

\* element.model_copy(update={"x_mm": abs_x, "y_mm": abs_y, "anchor_to": None})
model_copy(element, abs_x, abs_y) ==
    [element EXCEPT !.x_mm = abs_x, !.y_mm = abs_y, !.anchor_to = None]

\* mutant: the elements are rendered in the order the part lists them
render_part_listed(t, slot_content, r, c) ==
    LET elements == t.part.elements
        pos == [k \in DOMAIN elements |->
                   calculate_element_position(elements[k], elements, 0)]
        positioned == [k \in DOMAIN elements |->
                          model_copy(elements[k], pos[k].x, pos[k].y)]
        value(e) == IF slot_content # <<>>
                    THEN get_content(slot_content[1], e.id) ELSE NoValue
    IN  IF \E k \in DOMAIN pos : pos[k].exc # None
        THEN Raise("RecursionError")
        ELSE join([k \in DOMAIN positioned |->
                      LET e == positioned[k]
                      IN  CASE e.type = "image" ->
                                   render_image_element(e, value(e), r, c)
                            [] e.type = "text" ->
                                   render_text_element(e, value(e), r, c)
                            [] OTHER ->
                                   render_graphic_element(e, r, c, value(e))])

\* mutant: an image or a text without content is left out
render_part_skip_empty(t, slot_content, r, c) ==
    LET elements == t.part.elements
        pos == [k \in DOMAIN elements |->
                   calculate_element_position(elements[k], elements, 0)]
        positioned == [k \in DOMAIN elements |->
                          model_copy(elements[k], pos[k].x, pos[k].y)]
        value(e) == IF slot_content # <<>>
                    THEN get_content(slot_content[1], e.id) ELSE NoValue
        images == SelectSeq(positioned,
                            LAMBDA e : e.type = "image" /\ Truthy(value(e)))
        texts == SelectSeq(positioned,
                           LAMBDA e : e.type = "text" /\ Truthy(value(e)))
        graphics == SelectSeq(positioned, LAMBDA e : e.type = "graphic")
    IN  IF \E k \in DOMAIN pos : pos[k].exc # None
        THEN Raise("RecursionError")
        ELSE join([k \in DOMAIN images |->
                      render_image_element(images[k], value(images[k]), r, c)])
             \o join([k \in DOMAIN texts |->
                         render_text_element(texts[k], value(texts[k]), r, c)])
             \o join([k \in DOMAIN graphics |->
                         render_graphic_element(graphics[k], r, c,
                                                value(graphics[k]))])

\* renderer.render_part; slot_content is an Optional[SlotContent]
render_part(t, slot_content, r, c) ==
    LET elements == t.part.elements
        pos == [k \in DOMAIN elements |->
                   calculate_element_position(elements[k], elements, 0)]
        positioned == [k \in DOMAIN elements |->
                          model_copy(elements[k], pos[k].x, pos[k].y)]
        value(e) == IF slot_content # <<>>
                    THEN get_content(slot_content[1], e.id) ELSE NoValue
        images == SelectSeq(positioned, LAMBDA e : e.type = "image")
        texts == SelectSeq(positioned, LAMBDA e : e.type = "text")
        graphics == SelectSeq(positioned, LAMBDA e : e.type = "graphic")
    IN  IF \E k \in DOMAIN pos : pos[k].exc # None
        THEN Raise("RecursionError")
        ELSE join([k \in DOMAIN images |->
                      render_image_element(images[k], value(images[k]), r, c)])
             \o join([k \in DOMAIN texts |->
                         render_text_element(texts[k], value(texts[k]), r, c)])
             \o join([k \in DOMAIN graphics |->
                         render_graphic_element(graphics[k], r, c,
                                                value(graphics[k]))])

\* --------------------------------------------------- layout engine: plate

\* the packers' variables, idle while renderPlateSVG runs
pack == <<rects, bed_w, bed_h, margin, gutter, keepouts, seed, rng, remaining,
          rects_sorted, beds, placed, warnings, cursor_x, cursor_y,
          row_height, i>>

PackIdle ==
    /\ rects = <<>>
    /\ bed_w = 0
    /\ bed_h = 0
    /\ margin = 0
    /\ gutter = 0
    /\ keepouts = <<>>
    /\ seed = 0
    /\ rng = 0
    /\ remaining = <<>>
    /\ rects_sorted = <<>>
    /\ beds = <<>>
    /\ placed = <<>>
    /\ warnings = <<>>
    /\ cursor_x = 0
    /\ cursor_y = 0
    /\ row_height = 0
    /\ i = 0

\* the header, the metadata comments and the origin marker
Header(t) ==
    <<[tag |-> "svg", width |-> t.bed.width_mm, height |-> t.bed.height_mm,
       viewBox |-> <<0, 0, t.bed.width_mm, t.bed.height_mm>>,
       xmlns |-> "http://www.w3.org/2000/svg"],
      [tag |-> "comment", text |-> <<"Generated by Template Layout Engine">>],
      [tag |-> "comment",
       text |-> <<"Bed", t.bed.width_mm, t.bed.height_mm>>],
      [tag |-> "comment",
       text |-> <<"Part", t.part.width_mm, t.part.height_mm>>],
      [tag |-> "comment",
       text |-> <<"Tiling", t.tiling.rows, t.tiling.cols>>]>>
    \o (IF t.bed.origin_marker
        THEN <<[tag |-> "rect", id |-> <<"origin-marker">>,
                x |-> t.bed.origin_x_mm,
                y |-> <<t.bed.height_mm * 10 - 1, 10>>,
                width |-> <<1, 10>>, height |-> <<1, 10>>,
                fill |-> "black"],
               [tag |-> "comment",
                text |-> <<"Origin marker", t.bed.origin_x_mm,
                           t.bed.origin_y_mm>>]>>
        ELSE <<>>)

\* renderPlateSVG up to the tile loop
renderPlateSVG_header ==
    /\ fn = "renderPlateSVG"
    /\ pc = "call"
    /\ svg_parts' = Header(template)
    /\ row' = 0
    /\ col' = 0
    /\ pc' = "tiles"
    /\ UNCHANGED <<fn, request, pack, template, content, call, first>>

\* mutant: the tile group of (r, c) is translated by the column along y and
\* by the row along x
Tile_Transposed(t, cn, r, c) ==
    LET tile_x == t.bed.margin_mm.left + t.tiling.offset_x_mm
                      + r * (t.part.width_mm + t.tiling.gap_x_mm)
        tile_y == t.bed.margin_mm.top + t.tiling.offset_y_mm
                      + c * (t.part.height_mm + t.tiling.gap_y_mm)
        slot_index == r * t.tiling.cols + c
        slot_content == get_slot(cn, slot_index)
        tile_id == generate_unique_id("tile", r, c, "")
    IN  <<[tag |-> "g", id |-> tile_id, translate |-> <<tile_x, tile_y>>]>>
        \o render_part(t, slot_content, r, c)
        \o <<[tag |-> "/g"]>>

\* mutant: the slot of tile (r, c) is counted down the columns
Tile_ColumnMajor(t, cn, r, c) ==
    LET tile_x == t.bed.margin_mm.left + t.tiling.offset_x_mm
                      + c * (t.part.width_mm + t.tiling.gap_x_mm)
        tile_y == t.bed.margin_mm.top + t.tiling.offset_y_mm
                      + r * (t.part.height_mm + t.tiling.gap_y_mm)
        slot_index == c * t.tiling.rows + r
        slot_content == get_slot(cn, slot_index)
        tile_id == generate_unique_id("tile", r, c, "")
    IN  <<[tag |-> "g", id |-> tile_id, translate |-> <<tile_x, tile_y>>]>>
        \o render_part(t, slot_content, r, c)
        \o <<[tag |-> "/g"]>>

\* the tile group of (r, c): its opening tag, the part, its closing tag
Tile(t, cn, r, c) ==
    LET tile_x == t.bed.margin_mm.left + t.tiling.offset_x_mm
                      + c * (t.part.width_mm + t.tiling.gap_x_mm)
        tile_y == t.bed.margin_mm.top + t.tiling.offset_y_mm
                      + r * (t.part.height_mm + t.tiling.gap_y_mm)
        slot_index == r * t.tiling.cols + c
        slot_content == get_slot(cn, slot_index)
        tile_id == generate_unique_id("tile", r, c, "")
    IN  <<[tag |-> "g", id |-> tile_id, translate |-> <<tile_x, tile_y>>]>>
        \o render_part(t, slot_content, r, c)
        \o <<[tag |-> "/g"]>>

\* one pass of the body of the tile loop; an exception of render_part leaves
\* renderPlateSVG
renderPlateSVG_tile ==
    /\ fn = "renderPlateSVG"
    /\ pc = "tiles"
    /\ row < template.tiling.rows
    /\ LET out == Tile(template, content, row, col)
       IN  IF Raised(out)
           THEN /\ pc' = Exception(out)
                /\ UNCHANGED <<svg_parts, row, col>>
           ELSE /\ svg_parts' = svg_parts \o out
                /\ IF col + 1 < template.tiling.cols
                   THEN col' = col + 1 /\ row' = row
                   ELSE col' = 0 /\ row' = row + 1
                /\ pc' = pc
    /\ UNCHANGED <<fn, request, pack, template, content, call, first>>

\* the tile loop is over: the closing tag, and the join
renderPlateSVG_return ==
    /\ fn = "renderPlateSVG"
    /\ pc = "tiles"
    /\ row >= template.tiling.rows
    /\ svg_parts' = svg_parts \o <<[tag |-> "/svg"]>>
    /\ pc' = "done"
    /\ UNCHANGED <<fn, request, pack, template, content, row, col, call, first>>

renderPlateSVG ==
    \/ renderPlateSVG_header
    \/ renderPlateSVG_tile
    \/ renderPlateSVG_return

\* ------------------------------------------- layout engine: the templates

\* the most elements in a part
MaxElements == 2

\* the ids of a part's elements, by position
ElementIds == <<"photoArea", "nameLine", "borderFrame", "messageBlock">>

AnchorPoints == {"top", "bottom", "left", "right", "center"}

\* The box of the k-th element; widths and heights are even, so that w_mm / 2
\* and h_mm / 2 are whole numbers.
ImageElement(k, fit, clip_shape, frame_source) ==
    [type |-> "image", id |-> ElementIds[k], x_mm |-> k, y_mm |-> 2 * k,
     w_mm |-> 2 * k + 2, h_mm |-> 4 * k, editable |-> TRUE,
     anchor_to |-> None, anchor_point |-> "top",
     fit |-> fit, clip_shape |-> clip_shape, frame_source |-> frame_source]

TextElement(k, text_align, multiline) ==
    [type |-> "text", id |-> ElementIds[k], x_mm |-> k, y_mm |-> 2 * k,
     w_mm |-> 2 * k + 2, h_mm |-> 4 * k, editable |-> TRUE,
     anchor_to |-> None, anchor_point |-> "top",
     font_family |-> <<"Times New Roman">>, font_size_pt |-> 12,
     text_align |-> text_align, multiline |-> multiline]

GraphicElement(k, source) ==
    [type |-> "graphic", id |-> ElementIds[k], x_mm |-> k, y_mm |-> 2 * k,
     w_mm |-> 2 * k + 2, h_mm |-> 4 * k, editable |-> FALSE,
     anchor_to |-> None, anchor_point |-> "top", source |-> source]

Variants == 1..7

\* the v-th variant of the k-th element
Element(k, v) ==
    CASE v = 1 -> ImageElement(k, "cover", NoClip, <<>>)
      [] v = 2 -> TextElement(k, "center", FALSE)
      [] v = 3 -> GraphicElement(k, <<"border", ".svg">>)
      [] v = 4 -> ImageElement(k, "contain",
                               [kind |-> "rounded_rect", radius_mm |-> 1],
                               <<"simple-gold">>)
      [] v = 5 -> TextElement(k, "left", TRUE)
      [] v = 6 -> GraphicElement(k, <<"missing", ".svg">>)
      [] OTHER -> GraphicElement(k, <<"logo", ".PNG">>)

\* the anchors of an element in a part of n elements: none, an id that no
\* element has, or an element of the part (itself included) at any point
Anchors(n) ==
    {<<None, "top">>, <<"ghost", "center">>}
        \cup ({ElementIds[k] : k \in 1..n} \X AnchorPoints)

\* parts of n unanchored elements of every variant, and parts of an image, a
\* text and a graphic with every anchor
Parts(n) ==
    {[k \in 1..n |-> Element(k, f[k])] : f \in [1..n -> Variants]}
        \cup {[k \in 1..n |->
                 [Element(k, ((k - 1) % 3) + 1)
                     EXCEPT !.anchor_to = f[k][1], !.anchor_point = f[k][2]]] :
                f \in [1..n -> Anchors(n)]}

\* the decimal digit n as a chunk
Digit(n) == <<"0", "1", "2", "3", "4", "5", "6", "7", "8", "9">>[n + 1]

\* a slot with a value for every text and every image of the part
Slot(n, elements) ==
    [slot_index |-> n,
     extra |->
         [id \in {elements[k].id : k \in {j \in DOMAIN elements :
                                            elements[j].type # "graphic"}} |->
             LET e == elements[CHOOSE k \in DOMAIN elements :
                                   elements[k].id = id]
             IN  IF e.type = "text"
                 THEN StrValue(<<"Tom ", "&", " Ann", "\n", Digit(n)>>)
                 ELSE PhotoContent(<<"photos/", Digit(n), ".jpg">>, 1 + (n % 2),
                                   0, n % 3)]]

\* the contents for a part: no slot, slot 0, slots 3 and 0
Contents(elements) ==
    {[slots |-> <<>>],
     [slots |-> <<Slot(0, elements)>>],
     [slots |-> <<Slot(3, elements), Slot(0, elements)>>]}

Grid == 1..2

\* the template of a part on the bed, tiled in g[1] columns and g[2] rows
Template(es, g, m) ==
    [bed |-> [width_mm |-> 40, height_mm |-> 60,
              margin_mm |-> [left |-> 1, top |-> 2],
              origin_marker |-> m, origin_x_mm |-> 0, origin_y_mm |-> 0],
     part |-> [width_mm |-> 10, height_mm |-> 20, elements |-> es],
     tiling |-> [cols |-> g[1], rows |-> g[2], gap_x_mm |-> 1,
                 gap_y_mm |-> 2, offset_x_mm |-> 3, offset_y_mm |-> 4]]

\* a part on a bed with the origin marker, or an empty part on a bed without
InitRender ==
    /\ fn = "renderPlateSVG"
    /\ PackIdle
    /\ \E n \in 0..MaxElements : \E es \in Parts(n) : \E g \in Grid \X Grid :
        \E m \in IF es = <<>> THEN BOOLEAN ELSE {TRUE} :
            /\ template = Template(es, g, m)
            /\ content \in Contents(es)
    /\ svg_parts = <<>>
    /\ row = 0
    /\ col = 0
    /\ pc = "call"
    /\ call = 1
    /\ first = <<>>
    /\ request = <<>>

\* ---------------------------------------------- layout engine: more inputs

\* the slots of a tiled plate: slots 0, 4 and 9, and a second slot 0 holding
\* the values of slot 4
Slots(elements) ==
    {Slot(n, elements) : n \in {0, 4, 9}}
        \cup {[Slot(4, elements) EXCEPT !.slot_index = 0]}

\* the contents of up to two such slots, in every order
TiledContents(elements) ==
    {[slots |-> s] : s \in SeqsUpTo(Slots(elements), 2)}

\* the grids of a tiled plate, up to 3 x 3
TileGrid == 1..3

\* the sources of a graphic: none, URLs, files that exist or do not or cannot
\* be read, raster files, inline markup
Sources ==
    {<<>>,
     <<"https://", "cdn/border", ".svg">>,
     <<"http://", "cdn/logo", ".png">>,
     <<"missing", ".svg">>,
     <<"locked", ".svg">>,
     <<"border", ".svg">>,
     <<"plain", ".svg">>,
     <<"missing", ".png">>,
     <<"logo", ".PNG">>,
     <<"photo", ".jpg">>,
     <<"scan", ".jpeg">>,
     <<"<svg", ">", "<path d=\"M1 1\"/>", "</svg>">>}

\* the contents for a part of one graphic: no slot, or slot 0 with a source
\* for the graphic
GraphicContents(element) ==
    {[slots |-> <<>>]}
        \cup {[slots |-> <<[slot_index |-> 0,
                            extra |-> [id \in {element.id} |-> StrValue(s)]]>>] :
                 s \in Sources}

\* the slots 0 that hold the values of Slot(0, elements) for some of the
\* elements only
PartialSlots(elements) ==
    LET full == Slot(0, elements)
    IN  {[slot_index |-> 0, extra |-> [id \in D |-> full.extra[id]]] :
            D \in SUBSET DOMAIN full.extra}

\* parts of an image and a text, of either variant, in either order
PhotoAndName ==
    {<<Element(1, v[1]), Element(2, v[2])>> : v \in {1, 4} \X {2, 5}}
        \cup {<<Element(1, v[1]), Element(2, v[2])>> : v \in {2, 5} \X {1, 4}}

\* longest text of a slot, in chunks
MaxText == 3

\* the texts of a slot: words, blanks and newlines
Texts == SeqsUpTo({"Tom", " ", "\n"}, MaxText)

\* multiline text elements of several widths, font sizes and families
TextBoxes ==
    {[TextElement(k, "left", TRUE) EXCEPT !.font_size_pt = pt,
                                          !.font_family = ff] :
        k \in 1..2, pt \in {8, 12}, ff \in {<<"Times New Roman">>, <<"Arial">>}}

\* One of: a part of one more element than MaxElements, untiled, without
\* content or, if no element is anchored, with slot 0; a part of an image
\* and a text tiled on up to 3 x 3 with up to two slots; a part of one
\* graphic with a source of its own and one from the slot; a part of an
\* image and a text on two tiles, the first with a slot that holds values for
\* some of the elements; a part of one multiline text with a text in slot 0.
InitLayout ==
    /\ fn = "renderPlateSVG"
    /\ PackIdle
    /\ \/ \E es \in Parts(MaxElements + 1) :
              /\ template = Template(es, <<1, 1>>, TRUE)
              /\ content \in
                     IF \A k \in DOMAIN es : es[k].anchor_to = None
                     THEN {[slots |-> <<>>], [slots |-> <<Slot(0, es)>>]}
                     ELSE {[slots |-> <<>>]}
       \/ \E g \in TileGrid \X TileGrid :
              LET es == <<Element(1, 1), Element(2, 2)>>
              IN  /\ template = Template(es, g, TRUE)
                  /\ content \in TiledContents(es)
       \/ \E s \in Sources :
              LET es == <<GraphicElement(3, s)>>
              IN  /\ template = Template(es, <<1, 2>>, TRUE)
                  /\ content \in GraphicContents(es[1])
       \/ \E es \in PhotoAndName :
              /\ template = Template(es, <<2, 1>>, TRUE)
              /\ \E s \in PartialSlots(es) : content = [slots |-> <<s>>]
       \/ \E e \in TextBoxes : \E text \in Texts :
              /\ template = Template(<<e>>, <<1, 1>>, TRUE)
              /\ content = [slots |-> <<[slot_index |-> 0,
                                         extra |-> [id \in {e.id} |->
                                                       StrValue(text)]]>>]
    /\ svg_parts = <<>>
    /\ row = 0
    /\ col = 0
    /\ pc = "call"
    /\ call = 1
    /\ first = <<>>
    /\ request = <<>>

\* ------------------------------------------------- routers: the CSV upload

Min(a, b) == IF a <= b THEN a ELSE b

RECURSIVE split_on(_, _)

\* the segments of the text between the separators
split_on(text, sep) ==
    LET at == {k \in DOMAIN text : text[k] = sep}
    IN  IF at = {} THEN <<text>>
        ELSE LET k == CHOOSE n \in at : \A m \in at : n <= m
             IN  <<SubSeq(text, 1, k - 1)>>
                     \o split_on(SubSeq(text, k + 1, Len(text)), sep)

\* csv.DictReader(io.StringIO(csv_data)): the first line names the columns,
\* each further line that is not empty is a row, a dict by column name
DictReader(csv_data) ==
    LET lines == SelectSeq(split_on(csv_data, "\n"), LAMBDA l : l # <<>>)
        fieldnames == IF lines = <<>> THEN <<>> ELSE split_on(lines[1], ",")
        cells(n) == split_on(lines[n + 1], ",")
        at(name) == CHOOSE k \in DOMAIN fieldnames : fieldnames[k] = name
    IN  [n \in 1..(Len(lines) - 1) |->
            [name \in {fieldnames[k] : k \in 1..Min(Len(fieldnames),
                                                     Len(cells(n)))} |->
                cells(n)[at(name)]]]

\* 'graphic' in csv_col.lower() or 'image' in csv_col.lower()
is_graphic_column(csv_col) ==
    \E k \in DOMAIN csv_col :
        csv_col[k] \in {"graphic", "Graphic", "image", "Image"}

\* a bare file name of a graphic column becomes a path under the public
\* graphics, with ".png" if it has no extension
graphic_path(value) ==
    IF value = <<>> \/ Head(value) \in {"/", "http"} THEN value
    ELSE <<"/static/graphics/public/">> \o value
             \o (IF value[Len(value)] \in {".png", ".jpg", ".jpeg", ".svg"}
                 THEN <<>> ELSE <<".png">>)

\* csv_parser.parse_csv_to_content with has_header: one slot for each row,
\* numbered from 0, holding the cell of each mapped column under the
\* element's id
parse_csv_to_content(csv_data, column_mapping) ==
    LET reader == DictReader(csv_data)
        slot(n) ==
            LET mapped == {csv_col \in DOMAIN column_mapping :
                              csv_col \in DOMAIN reader[n]}
                col_of(element_id) ==
                    CHOOSE csv_col \in mapped :
                        column_mapping[csv_col] = element_id
            IN  [slot_index |-> n - 1,
                 extra |->
                     [element_id \in {column_mapping[c] : c \in mapped} |->
                         StrValue(IF is_graphic_column(col_of(element_id))
                                  THEN graphic_path(
                                           reader[n][col_of(element_id)])
                                  ELSE reader[n][col_of(element_id)])]]
    IN  [slots |-> [n \in DOMAIN reader |-> slot(n)]]

\* s[start:end] for start, end >= 0
Slice(s, start, end) ==
    SubSeq(s, Min(start, Len(s)) + 1, Min(end, Len(s)))

\* upload_csv up to its call of renderPlateSVG: the template and the mapping
\* are parsed, the CSV becomes the content, and a page of it is cut out if
\* page and items_per_page are given; then renderPlateSVG(template_obj,
\* content) runs, and its document is the response
upload_csv ==
    /\ fn = "upload_csv"
    /\ pc = "call"
    /\ template' = request.template
    /\ LET parsed == parse_csv_to_content(request.file, request.column_mapping)
           start_idx == request.page[1] * request.items_per_page[1]
           end_idx == start_idx + request.items_per_page[1]
       IN  content' =
               IF request.page # <<>> /\ request.items_per_page # <<>>
               THEN [parsed EXCEPT !.slots = Slice(parsed.slots, start_idx,
                                                   end_idx)]
               ELSE parsed
    /\ fn' = "renderPlateSVG"
    /\ UNCHANGED <<request, pack, svg_parts, row, col, pc, call, first>>

\* the most data rows of an uploaded CSV file
MaxCsvRows == 4

\* the cell of the n-th data row, counted from 0
Cell(n) == <<"Row", Digit(n)>>

RECURSIVE CsvLines(_)

\* the file: the header line "Name" and n data lines of one cell
CsvLines(n) ==
    IF n = 0 THEN <<"Name">> ELSE CsvLines(n - 1) \o <<"\n">> \o Cell(n - 1)

\* the plates of the upload: one text line per part, tiled
UploadGrids == {<<1, 1>>, <<2, 1>>, <<2, 2>>}

\* the pages asked for
Pages == 0..2

\* Optional[int]: the list of the value, or the empty list for None
Optional(S) == {<<>>} \cup {<<v>> : v \in S}

\* the forms posted to /upload/csv: a file, a template of a text line, the
\* mapping of the column to the line, and a page of up to a plate's tiles
Requests ==
    {[file |-> CsvLines(n), template |-> Template(<<e>>, g, TRUE),
      column_mapping |-> [c \in {<<"Name">>} |-> e.id],
      has_header |-> TRUE, format |-> "svg",
      page |-> page, items_per_page |-> items_per_page] :
        n \in 0..MaxCsvRows, e \in {TextElement(2, "left", FALSE)},
        g \in UploadGrids, page \in Optional(Pages),
        items_per_page \in Optional(1..MaxCsvRows)}

InitUpload ==
    /\ fn = "upload_csv"
    /\ PackIdle
    /\ RenderIdle
    /\ request \in Requests
    /\ pc = "call"
    /\ call = 1
    /\ first = <<>>

\* ------------------------------------------------------------- the caller

\* what the finished call returns: beds, (placed, warnings) or the document
Returned ==
    CASE fn = "pack_paginated" -> beds
      [] fn = "pack_first_fit" -> <<placed, warnings>>
      [] OTHER -> svg_parts

\* the lists holding the elements of s in another order
Reorderings(s) ==
    {[k \in 1..Len(s) |-> s[f[k]]] :
        f \in {g \in [1..Len(s) -> 1..Len(s)] :
                  \A a, b \in 1..Len(s) : a # b => g[a] # g[b]}}

\* the locals of a fresh call
FreshCall ==
    /\ rng' = 0
    /\ remaining' = <<>>
    /\ rects_sorted' = <<>>
    /\ beds' = <<>>
    /\ placed' = <<>>
    /\ warnings' = <<>>
    /\ cursor_x' = 0
    /\ cursor_y' = 0
    /\ row_height' = 0
    /\ i' = 0
    /\ svg_parts' = <<>>
    /\ row' = 0
    /\ col' = 0
    /\ pc' = "call"

\* the arguments and the result that the caller keeps of its first call
Kept ==
    [fn |-> fn, rects |-> rects, seed |-> seed, template |-> template,
     content |-> content, ret |-> Returned]

\* The caller keeps the result and calls once more on the same objects: with
\* the same arguments (the tests' second call), or a packer with another seed,
\* or the other packer.
Reinvoke ==
    /\ pc = "done"
    /\ call = 1
    /\ first' = Kept
    /\ call' = 2
    /\ \/ UNCHANGED <<fn, request, rects, seed>>
       \/ /\ fn \in Fns
          /\ seed' \in Seeds \ {seed}
          /\ UNCHANGED <<fn, request, rects>>
       \/ /\ fn \in Fns
          /\ fn' \in Fns \ {fn}
          /\ UNCHANGED <<rects, seed>>
    /\ FreshCall
    /\ UNCHANGED <<args, template, content, request>>

\* The caller keeps the result and invokes pack_paginated once more with the
\* same rects listed in another order.
Reorder ==
    /\ pc = "done"
    /\ call = 1
    /\ fn = "pack_paginated"
    /\ first' = Kept
    /\ call' = 2
    /\ rects' \in Reorderings(rects) \ {rects}
    /\ FreshCall
    /\ UNCHANGED <<fn, request, seed, args, template, content>>

\* a job of a packer or of the renderer
Init == InitPack \/ InitRender

Next ==
    \/ pack_paginated
    \/ pack_first_fit
    \/ renderPlateSVG
    \/ Reinvoke

Spec == Init /\ [][Next]_vars

\* one call of renderPlateSVG
SpecLayout == InitLayout /\ [][renderPlateSVG]_vars

\* one call of a packer
NextOnce ==
    \/ pack_paginated
    \/ pack_first_fit

\* one call, whose loops run on: the interpreter postpones no step for ever
FairSpec == InitPack /\ [][NextOnce]_vars /\ WF_vars(NextOnce)

\* pack_paginated on a bed without keepouts or with the clamp strip on the left
InitOrder ==
    /\ InitPack
    /\ fn = "pack_paginated"
    /\ keepouts \in {<<>>, <<<<0, 0, 1, BedSize[2]>>>>}

NextOrder ==
    \/ pack_paginated
    \/ Reorder

SpecOrder == InitOrder /\ [][NextOrder]_vars

\* MACHINES["MUTOH-UJF-461"]
Mutoh ==
    [bed_w |-> 480, bed_h |-> 330, margin |-> 5, gutter |-> 5,
     keepouts |-> <<<<0, 0, 20, 330>>>>]

\* the tests' rects: Rect(id=str(i), w=140.0, h=90.0) for i in range(20)
TestItems == 20

TestShape == <<140, 90>>

\* the first n of the tests' rects on the Mutoh bed
InitMutoh ==
    /\ fn \in Fns
    /\ RenderIdle
    /\ \E n \in 0..TestItems :
           rects = [k \in 1..n |-> Rect(k - 1, TestShape[1], TestShape[2])]
    /\ bed_w = Mutoh.bed_w
    /\ bed_h = Mutoh.bed_h
    /\ margin = Mutoh.margin
    /\ gutter = Mutoh.gutter
    /\ keepouts = Mutoh.keepouts
    /\ seed = DefaultSeed
    /\ rng = 0
    /\ remaining = <<>>
    /\ rects_sorted = <<>>
    /\ beds = <<>>
    /\ placed = <<>>
    /\ warnings = <<>>
    /\ cursor_x = 0
    /\ cursor_y = 0
    /\ row_height = 0
    /\ i = 0
    /\ pc = "call"
    /\ call = 1
    /\ first = <<>>
    /\ request = <<>>

SpecMutoh == InitMutoh /\ [][NextOnce]_vars

\* a keepout strip across the whole bed below its first line
Strip == <<0, 1, BedSize[1], 2>>

\* a packer's job on a bed with the strip
InitStrip ==
    /\ fn \in Fns
    /\ RenderIdle
    /\ \E sh \in SeqsUpTo(Shape, MaxRects) :
           rects = [k \in 1..Len(sh) |-> Rect(k - 1, sh[k][1], sh[k][2])]
    /\ bed_w = BedSize[1]
    /\ bed_h = BedSize[2]
    /\ margin \in Margins
    /\ gutter \in 1..MaxGutter
    /\ keepouts = <<Strip>>
    /\ seed = DefaultSeed
    /\ rng = 0
    /\ remaining = <<>>
    /\ rects_sorted = <<>>
    /\ beds = <<>>
    /\ placed = <<>>
    /\ warnings = <<>>
    /\ cursor_x = 0
    /\ cursor_y = 0
    /\ row_height = 0
    /\ i = 0
    /\ pc = "call"
    /\ call = 1
    /\ first = <<>>
    /\ request = <<>>

SpecStrip == InitStrip /\ [][NextOnce]_vars

\* one request to /upload/csv
SpecUpload == InitUpload /\ [][upload_csv \/ renderPlateSVG]_vars

\* ------------------------------------------------------------ properties

Done == pc = "done"

RECURSIVE Flatten(_)
\* the placements of all the beds, bed after bed
Flatten(bs) == IF bs = <<>> THEN <<>> ELSE Head(bs) \o Flatten(Tail(bs))

\* every PlacedRect of the returned value, in output order
AllPlaced == IF fn = "pack_paginated" THEN Flatten(beds) ELSE placed

DistinctIds(rs) == \A a, b \in 1..Len(rs) : a # b => rs[a].id # rs[b].id

\* C1: every PlacedRect returned by pack_paginated or pack_first_fit lies on
\* the bed: x >= 0, y >= 0, x + w <= bed_w and y + h <= bed_h.
C1_InsideBed ==
    Done => \A k \in 1..Len(AllPlaced) :
        LET p == AllPlaced[k] IN
        /\ p.x >= 0
        /\ p.y >= 0
        /\ p.x + p.w <= bed_w
        /\ p.y + p.h <= bed_h

\* C2: no PlacedRect returned by pack_paginated or pack_first_fit overlaps a
\* keepout zone: x + w <= kx or x >= kx + kw or y + h <= ky or y >= ky + kh.
C2_NoKeepoutOverlap ==
    Done => \A k \in 1..Len(AllPlaced) : \A n \in 1..Len(keepouts) :
        LET p == AllPlaced[k]
            kx == keepouts[n][1]
            ky == keepouts[n][2]
            kw == keepouts[n][3]
            kh == keepouts[n][4]
        IN  \/ p.x + p.w <= kx
            \/ p.x >= kx + kw
            \/ p.y + p.h <= ky
            \/ p.y >= ky + kh

\* a rect was returned that the keepout kept from the start of its row
C2_Witness ==
    /\ Done
    /\ \E k \in 1..Len(AllPlaced) :
        LET p == AllPlaced[k] IN
        /\ _overlaps_keepouts(margin, p.y, p.w, p.h, keepouts)
        /\ p.x > margin

\* C3: packing conservation of pack_paginated for rects with unique ids: every
\* placement has the id, w and h of exactly one input rect, no input rect is
\* placed more than once, and placed plus absent rects make up the input.
C3_Conservation ==
    (Done /\ fn = "pack_paginated" /\ DistinctIds(rects)) =>
        LET P == Flatten(beds)
            Uses(j) == {k \in 1..Len(P) : RectOf(P[k]) = rects[j]}
            Absent == {j \in 1..Len(rects) : Uses(j) = {}}
        IN  /\ \A k \in 1..Len(P) :
                Cardinality({j \in 1..Len(rects) : rects[j] = RectOf(P[k])}) = 1
            /\ \A j \in 1..Len(rects) : Cardinality(Uses(j)) <= 1
            /\ Len(P) + Cardinality(Absent) = Len(rects)

\* rects went to two beds and one rect was left out
C3_Witness ==
    /\ Done
    /\ fn = "pack_paginated"
    /\ Len(rects) = 3
    /\ Len(Flatten(beds)) = 2
    /\ Len(beds) = 3

\* C4: determinism. The bed size, margin, gutter and keepouts never change;
\* a second call of the same function with the same rects and seed returns the
\* same number of beds and, position by position, placements with the same id,
\* x, y, w and h; a second call of renderPlateSVG with the same template and
\* content returns the same document.
C4_Deterministic ==
    (/\ Done
     /\ call = 2
     /\ first.fn = fn
     /\ first.rects = rects
     /\ first.seed = seed
     /\ first.template = template
     /\ first.content = content) =>
        CASE fn = "pack_paginated" ->
                 /\ Len(beds) = Len(first.ret)
                 /\ \A b \in 1..Len(beds) :
                        /\ Len(beds[b]) = Len(first.ret[b])
                        /\ \A k \in 1..Len(beds[b]) :
                               beds[b][k] = first.ret[b][k]
          [] fn = "pack_first_fit" ->
                 /\ Len(placed) = Len(first.ret[1])
                 /\ \A k \in 1..Len(placed) : placed[k] = first.ret[1][k]
          [] OTHER -> svg_parts = first.ret

\* a plate of several tiles, with content and an element anchored to another,
\* was rendered a second time
C4_Witness ==
    /\ Done
    /\ call = 2
    /\ fn = "renderPlateSVG"
    /\ first.template = template
    /\ first.content = content
    /\ template.tiling.rows * template.tiling.cols >= 2
    /\ content.slots # <<>>
    /\ \E k \in DOMAIN template.part.elements :
           FindAnchor(template.part.elements,
                      template.part.elements[k].anchor_to) \notin {0, k}
    /\ Len(svg_parts) > Len(Header(template)) + 1

\* C5: for rects with pairwise distinct ids pack_paginated returns the same
\* beds for the list in any other order.
C5_OrderIndependent ==
    (/\ Done
     /\ call = 2
     /\ fn = "pack_paginated"
     /\ first.fn = "pack_paginated"
     /\ first.seed = seed
     /\ DistinctIds(rects)
     /\ rects \in Reorderings(first.rects)) => beds = first.ret

\* a reordered list with two rects of equal area was packed again
C5_Witness ==
    /\ Done
    /\ call = 2
    /\ fn = "pack_paginated"
    /\ rects # first.rects
    /\ Len(Flatten(beds)) >= 2
    /\ \E a, b \in 1..Len(rects) :
        a # b /\ rects[a].w * rects[a].h = rects[b].w * rects[b].h

\* C6: for fixed rects, bed, margin, gutter and keepouts both packers return
\* the same result for every seed.
C6_SeedIndependent ==
    (/\ Done
     /\ call = 2
     /\ fn \in Fns
     /\ first.fn = fn
     /\ first.rects = rects) => Returned = first.ret

\* the same rects were packed under two seeds
C6_Witness ==
    /\ Done
    /\ call = 2
    /\ fn \in Fns
    /\ first.fn = fn
    /\ first.rects = rects
    /\ first.seed # seed
    /\ Len(AllPlaced) >= 2

\* C7: pack_paginated and pack_first_fit terminate for every input, gutter 0
\* and rects that can never be placed included.
C7_Terminates == <>Done

\* C8: every rect placed lies inside the area the margins leave:
\* margin <= x, x + w <= bed_w - margin, margin <= y, y + h <= bed_h - margin.
C8_InsideMargins ==
    Done => \A k \in 1..Len(AllPlaced) :
        LET p == AllPlaced[k] IN
        /\ margin <= p.x
        /\ p.x + p.w <= bed_w - margin
        /\ margin <= p.y
        /\ p.y + p.h <= bed_h - margin

\* C9 as claimed: of two placed rects of equal area the one with the smaller
\* id comes earlier in the output of pack_paginated.
C9_TieBreakOrder ==
    (Done /\ fn = "pack_paginated") =>
        LET P == Flatten(beds) IN
        \A a, b \in 1..Len(P) :
            (P[a].w * P[a].h = P[b].w * P[b].h /\ StrLess(P[a].id, P[b].id))
                => a < b

\* C9, amended: of two placed rects of equal width and equal height the one
\* with the smaller id comes earlier in the output of pack_paginated.
C9_TieBreakSameShape ==
    (Done /\ fn = "pack_paginated") =>
        LET P == Flatten(beds) IN
        \A a, b \in 1..Len(P) :
            (P[a].w = P[b].w /\ P[a].h = P[b].h /\ StrLess(P[a].id, P[b].id))
                => a < b

\* two rects of one shape were placed, passed in the order of their ids or not
C9_Witness ==
    /\ Done
    /\ fn = "pack_paginated"
    /\ \E a, b \in 1..Len(Flatten(beds)) :
        /\ a # b
        /\ Flatten(beds)[a].w = Flatten(beds)[b].w
        /\ Flatten(beds)[a].h = Flatten(beds)[b].h

Rows(P) == {P[k].y : k \in 1..Len(P)}

\* C11: 6 rects of 140x90 on the 480x330 bed with margin 5, gutter 5 and
\* keepout (0,0,20,330) are all placed on one bed, without overflow, clear of
\* the keepout, in 2 rows of 3 columns.
C11_SixOnOneBed ==
    (Done /\ Len(rects) = 6) =>
        /\ fn = "pack_paginated" => Len(beds) = 1
        /\ fn = "pack_first_fit" => warnings = <<>>
        /\ Len(AllPlaced) = 6
        /\ \A j \in 1..6 : \E k \in 1..6 : RectOf(AllPlaced[k]) = rects[j]
        /\ \A k \in 1..6 :
               ~_overlaps_keepouts(AllPlaced[k].x, AllPlaced[k].y,
                                   AllPlaced[k].w, AllPlaced[k].h, keepouts)
        /\ Cardinality(Rows(AllPlaced)) = 2
        /\ \A y \in Rows(AllPlaced) :
               Cardinality({AllPlaced[k].x :
                               k \in {j \in 1..6 : AllPlaced[j].y = y}}) = 3

\* pack_paginated returned for the 6 rects on the Mutoh bed
C11_Witness ==
    /\ Done
    /\ fn = "pack_paginated"
    /\ Len(rects) = 6
    /\ keepouts = Mutoh.keepouts
    /\ Len(Flatten(beds)) = 6

\* C12: pack_first_fit returns the warning "OVERFLOW" if and only if an input
\* rect is absent from placed; when every rect is placed there is no warning.
C12_OverflowIffAbsent ==
    (Done /\ fn = "pack_first_fit") =>
        LET absent == {j \in 1..Len(rects) :
                          \A k \in 1..Len(placed) : RectOf(placed[k]) # rects[j]}
        IN  /\ (\E k \in 1..Len(warnings) : warnings[k] = "OVERFLOW")
                   <=> absent # {}
            /\ absent = {} => warnings = <<>>

\* pack_first_fit placed a rect, left another out and warned
C12_Witness ==
    /\ Done
    /\ fn = "pack_first_fit"
    /\ placed # <<>>
    /\ Len(placed) < Len(rects)
    /\ warnings = <<"OVERFLOW">>

\* the elements of the part being rendered
Elements == template.part.elements

\* the element that the k-th element of es is anchored to, 0 if it is not
\* anchored or its anchor_to is the id of no element
AnchorOf(es, k) ==
    IF es[k].anchor_to \in {None, ""} THEN 0
    ELSE FindAnchor(es, es[k].anchor_to)

RECURSIVE Hop(_, _, _)

\* the element reached from the k-th after n hops along the anchors, 0 if the
\* chain ends before
Hop(es, k, n) ==
    IF k = 0 \/ n = 0 THEN k ELSE Hop(es, AnchorOf(es, k), n - 1)

\* the chain of anchors from the k-th element runs into a cycle
Cyclic(es, k) == Hop(es, k, Len(es)) # 0

\* the tile loop has rendered a tile, or has left with an exception
Rendered ==
    /\ fn = "renderPlateSVG"
    /\ \/ pc \in {"done", "RecursionError", "AttributeError"}
       \/ pc = "tiles" /\ (row > 0 \/ col > 0)

\* C13: calculate_element_position returns the element's own (x_mm, y_mm),
\* without raising, when anchor_to is unset or is the id of no element of the
\* part; a dangling anchor_to gives what the element gives with anchor_to
\* removed.
C13_UnanchoredOwnPosition ==
    fn = "renderPlateSVG" =>
        \A k \in DOMAIN Elements :
            LET e == Elements[k]
                unset == e.anchor_to \in {None, ""}
                dangling == /\ ~unset
                            /\ \A j \in DOMAIN Elements :
                                   Elements[j].id # e.anchor_to
                removed == [e EXCEPT !.anchor_to = None]
                p == calculate_element_position(e, Elements, 0)
            IN  (unset \/ dangling) =>
                    /\ p = [x |-> e.x_mm, y |-> e.y_mm, exc |-> None]
                    /\ p = calculate_element_position(
                               removed, [Elements EXCEPT ![k] = removed], 0)

\* a part with an element whose anchor_to names no element has been rendered
C13_Witness ==
    /\ Rendered
    /\ pc = "done"
    /\ \E k \in DOMAIN Elements :
           /\ Elements[k].anchor_to = "ghost"
           /\ \A j \in DOMAIN Elements : Elements[j].id # "ghost"

\* the offset of an anchor point on a target of w by h
AnchorOffset(anchor_point, w, h) ==
    CASE anchor_point = "bottom" -> <<0, h>>
      [] anchor_point = "right" -> <<w, 0>>
      [] anchor_point = "center" -> <<w \div 2, h \div 2>>
      [] OTHER -> <<0, 0>>

\* C14: an element e anchored to an existing element t in a chain without a
\* cycle is positioned at the resolved position of t, plus the offset of e's
\* anchor point on t, plus e's own (x_mm, y_mm), whatever the length of the
\* chain.
C14_AnchoredPosition ==
    fn = "renderPlateSVG" =>
        \A k \in DOMAIN Elements :
            (AnchorOf(Elements, k) # 0 /\ ~Cyclic(Elements, k)) =>
                LET e == Elements[k]
                    t == Elements[AnchorOf(Elements, k)]
                    pt == calculate_element_position(t, Elements, 0)
                    off == AnchorOffset(e.anchor_point, t.w_mm, t.h_mm)
                IN  /\ pt.exc = None
                    /\ calculate_element_position(e, Elements, 0)
                           = [x |-> pt.x + off[1] + e.x_mm,
                              y |-> pt.y + off[2] + e.y_mm, exc |-> None]

\* a part has been rendered in which an element is anchored to the bottom of
\* an element that is itself anchored to the right of an unanchored one
C14_Witness ==
    /\ Rendered
    /\ pc = "done"
    /\ \E k \in DOMAIN Elements :
           /\ Hop(Elements, k, 2) # 0
           /\ Hop(Elements, k, 3) = 0
           /\ Elements[k].anchor_point = "bottom"
           /\ Elements[Hop(Elements, k, 1)].anchor_point = "right"

\* C15: anchor resolution returns for every part, parts with a cycle of
\* anchor_to references included: nothing is raised, and an element whose
\* chain runs into a cycle gets its own unanchored (x_mm, y_mm).
C15_CyclesBroken ==
    fn = "renderPlateSVG" =>
        /\ pc # "RecursionError"
        /\ \A k \in DOMAIN Elements :
               LET e == Elements[k]
                   p == calculate_element_position(e, Elements, 0)
               IN  /\ p.exc = None
                   /\ Cyclic(Elements, k) => (p.x = e.x_mm /\ p.y = e.y_mm)

\* the positions in the document of the opening tags of the tile groups
TileStarts(doc) ==
    SelectSeq([k \in 1..Len(doc) |-> k],
              LAMBDA k : /\ doc[k].tag = "g"
                         /\ "id" \in DOMAIN doc[k]
                         /\ Head(doc[k].id) = "tile")

\* the opening tags of the tile groups, in document order
TileGroups(doc) == [n \in 1..Len(TileStarts(doc)) |-> doc[TileStarts(doc)[n]]]

\* the n-th tile group of a finished document: from its opening tag up to the
\* next tile group, or up to the closing tag of the document
TileGroup(doc, n) ==
    LET starts == TileStarts(doc)
    IN  SubSeq(doc, starts[n],
               IF n < Len(starts) THEN starts[n + 1] - 1 ELSE Len(doc) - 1)

\* C16: for tiling rows = R and cols = C renderPlateSVG emits exactly R*C tile
\* groups, one per (row, col), row by row, the tile of (row, col) translated to
\* (margin.left + offset_x + col * (part.width + gap_x),
\*  margin.top + offset_y + row * (part.height + gap_y)).
C16_TilingCoverage ==
    (fn = "renderPlateSVG" /\ Done) =>
        LET R == template.tiling.rows
            C == template.tiling.cols
        IN  TileGroups(svg_parts) =
                [n \in 1..(R * C) |->
                    LET r == (n - 1) \div C
                        c == (n - 1) % C
                    IN  [tag |-> "g", id |-> <<"tile", r, c>>,
                         translate |->
                             <<template.bed.margin_mm.left
                                   + template.tiling.offset_x_mm
                                   + c * (template.part.width_mm
                                              + template.tiling.gap_x_mm),
                               template.bed.margin_mm.top
                                   + template.tiling.offset_y_mm
                                   + r * (template.part.height_mm
                                              + template.tiling.gap_y_mm)>>]]

\* a plate of 3 rows and 2 columns has been rendered
C16_Witness ==
    /\ fn = "renderPlateSVG"
    /\ Done
    /\ template.tiling.rows = 3
    /\ template.tiling.cols = 2
    /\ Len(TileGroups(svg_parts)) = 6

\* the slots of the content whose slot_index is n
SlotsAt(n) ==
    {s \in {content.slots[k] : k \in DOMAIN content.slots} : s.slot_index = n}

\* the n-th tile group of the document carries the content of a slot: it is
\* not what the part renders to without content
Carries(n) ==
    LET C == template.tiling.cols
    IN  TileGroup(svg_parts, n) #
            <<TileGroups(svg_parts)[n]>>
                \o render_part(template, <<>>, (n - 1) \div C, (n - 1) % C)
                \o <<[tag |-> "/g"]>>

\* every slot of the content holds a text or a photo for an element of the
\* part, so that a tile rendered from a slot differs from one rendered from
\* none
Shown ==
    \A s \in {content.slots[k] : k \in DOMAIN content.slots} :
        \E k \in DOMAIN Elements :
            /\ Elements[k].type \in {"image", "text"}
            /\ Truthy(get_content(s, Elements[k].id))

\* C17: tile (row, col) renders the content of the slot whose slot_index is
\* row * cols + col, and renders without content if there is no such slot; so
\* the tiles carrying slot content are as many as the distinct slot_index
\* values in [0, rows * cols) that the content has.
C17_SlotByGridPosition ==
    (fn = "renderPlateSVG" /\ Done) =>
        LET R == template.tiling.rows
            C == template.tiling.cols
        IN  /\ \A r \in 0..(R - 1) : \A c \in 0..(C - 1) :
                   LET n == r * C + c + 1
                       body == SubSeq(TileGroup(svg_parts, n), 2,
                                      Len(TileGroup(svg_parts, n)) - 1)
                   IN  IF SlotsAt(r * C + c) = {}
                       THEN body = render_part(template, <<>>, r, c)
                       ELSE \E s \in SlotsAt(r * C + c) :
                                body = render_part(template, <<s>>, r, c)
            /\ Shown =>
                   Cardinality({n \in 1..(R * C) : Carries(n)})
                       = Cardinality({k \in 0..(R * C - 1) : SlotsAt(k) # {}})

\* a 3 x 3 plate has been rendered with slots 0 and 4 only: 2 of the 9 tiles
\* carry content
C17_Witness ==
    /\ fn = "renderPlateSVG"
    /\ Done
    /\ template.tiling.rows = 3
    /\ template.tiling.cols = 3
    /\ {content.slots[k].slot_index : k \in DOMAIN content.slots} = {0, 4}
    /\ {n \in 1..9 : Carries(n)} = {1, 5}

\* the elements that the n-th tile group emits, in document order: the kind
\* and the element id in the id of an image, a text or a graphic primitive
Emitted(n) ==
    LET group == TileGroup(svg_parts, n)
        prims == SelectSeq(group,
                           LAMBDA p : /\ "id" \in DOMAIN p
                                      /\ Len(p.id) = 4
                                      /\ p.id[1] \in {"image", "text", "graphic"})
    IN  [k \in DOMAIN prims |-> <<prims[k].id[1], prims[k].id[4]>>]

\* the place of a kind of element in the z-order
ZOrder(type) ==
    CASE type = "image" -> 1
      [] type = "text" -> 2
      [] OTHER -> 3

\* C18: in every tile the image elements come first, then the text elements,
\* then the graphic elements, whatever the order in which the part lists
\* them, and every element of the part is emitted exactly once.
C18_ZOrder ==
    (fn = "renderPlateSVG" /\ Done) =>
        \A n \in 1..(template.tiling.rows * template.tiling.cols) :
            LET em == Emitted(n)
            IN  /\ \A a, b \in DOMAIN em :
                       a < b => ZOrder(em[a][1]) <= ZOrder(em[b][1])
                /\ Len(em) = Len(Elements)
                /\ \A k \in DOMAIN Elements :
                       Cardinality({j \in DOMAIN em :
                                       em[j] = <<Elements[k].type,
                                                 Elements[k].id>>}) = 1

\* a part listing a graphic, a text and an image in this order has been
\* rendered
C18_Witness ==
    /\ fn = "renderPlateSVG"
    /\ Done
    /\ Len(Elements) = 3
    /\ Elements[1].type = "graphic"
    /\ Elements[2].type = "text"
    /\ Elements[3].type = "image"
    /\ Emitted(1) = <<<<"image", Elements[3].id>>, <<"text", Elements[2].id>>,
                      <<"graphic", Elements[1].id>>>>

\* the value that the slot of tile (r, c) holds for the element
SlotValue(element, r, c) ==
    LET slot_content == get_slot(content, r * template.tiling.cols + c)
    IN  IF slot_content # <<>> THEN get_content(slot_content[1], element.id)
        ELSE NoValue

\* the source a graphic is rendered from in tile (r, c): the slot's value if
\* it has one, else the element's own source
EffectiveSource(element, r, c) ==
    IF Truthy(SlotValue(element, r, c)) THEN SlotValue(element, r, c).s
    ELSE element.source

\* the source ends in .png, .jpg or .jpeg, in either case
Raster(source) ==
    /\ source # <<>>
    /\ lower(source[Len(source)]) \in {".png", ".jpg", ".jpeg"}

\* the graphic elements of the part, and the tiles of the plate
Graphics == {k \in DOMAIN Elements : Elements[k].type = "graphic"}

Tiles == (0..(template.tiling.rows - 1)) \X (0..(template.tiling.cols - 1))

\* C19: a graphic whose effective source ends in .png, .jpg or .jpeg is
\* rendered as an image primitive at the element's x_mm, y_mm, sized w_mm by
\* h_mm, and the rendering of the plate completes.
C19_RasterEmbedded ==
    fn = "renderPlateSVG" =>
        /\ pc # "AttributeError"
        /\ \A k \in Graphics : \A rc \in Tiles :
               LET e == Elements[k]
                   source == EffectiveSource(e, rc[1], rc[2])
                   out == render_graphic_element(e, rc[1], rc[2],
                                                 SlotValue(e, rc[1], rc[2]))
               IN  Raster(source) =>
                       /\ Len(out) = 1
                       /\ out[1].tag = "image"
                       /\ out[1].x = e.x_mm
                       /\ out[1].y = e.y_mm
                       /\ out[1].width = e.w_mm
                       /\ out[1].height = e.h_mm

\* the source cannot be resolved: it is empty, or a URL, or the path of no
\* file, or of a file whose read fails
Unresolved(source) ==
    \/ source = <<>>
    \/ /\ source # <<>>
       /\ Head(source) # "<svg"
       /\ \/ Head(source) \in {"http://", "https://"}
          \/ source \notin DOMAIN Assets
          \/ Assets[source] = <<None>>

\* what render_graphic_element returns for the element in tile rc is the
\* diagnostic comment and the stroked rectangle at the element's box
PlaceholderAt(e, rc) ==
    LET out == render_graphic_element(e, rc[1], rc[2],
                                      SlotValue(e, rc[1], rc[2]))
    IN  /\ ~Raised(out)
        /\ Len(out) = 2
        /\ out[1].tag = "comment"
        /\ Head(out[1].text) = "Graphic not found: "
        /\ out[2].tag = "rect"
        /\ out[2].x = e.x_mm
        /\ out[2].y = e.y_mm
        /\ out[2].width = e.w_mm
        /\ out[2].height = e.h_mm
        /\ out[2].fill = "none"
        /\ out[2].stroke = "#000000"

PrimitivesOf(n, kind, r, c, element_id) ==
    LET group == TileGroup(svg_parts, n)
    IN  {<<group[j], group[j + 1]>> :
            j \in {k \in 1..(Len(group) - 1) :
                      /\ "id" \in DOMAIN group[k]
                      /\ group[k].id = <<kind, r, c, element_id>>}}

\* the placeholder's data URI as it stands in an attribute
PlaceholderHref ==
    [k \in DOMAIN Placeholder |->
        IF Placeholder[k] = "'" THEN "&apos;" ELSE Placeholder[k]]

\* C21: missing content is no error: in a tile with no slot, or with a slot
\* that has no value for an element, every text element is still emitted as a
\* text primitive with empty text and every image element as an image
\* primitive that references the placeholder fill.
C21_MissingContent ==
    (fn = "renderPlateSVG" /\ Rendered) =>
        /\ (Graphics = {} /\ \A k \in DOMAIN Elements : ~Cyclic(Elements, k))
               => Done \/ pc = "tiles"
        /\ Done =>
               \A k \in DOMAIN Elements : \A rc \in Tiles :
                   LET e == Elements[k]
                       n == rc[1] * template.tiling.cols + rc[2] + 1
                       prims == PrimitivesOf(n, e.type, rc[1], rc[2], e.id)
                   IN  SlotValue(e, rc[1], rc[2]) = NoValue =>
                           CASE e.type = "text" ->
                                    /\ Cardinality(prims) = 1
                                    /\ \A p \in prims :
                                           /\ p[1].tag = "text"
                                           /\ p[2].tag \in {"chars", "tspan"}
                                           /\ p[2].text = <<>>
                             [] e.type = "image" ->
                                    /\ Cardinality(prims) = 1
                                    /\ \A p \in prims :
                                           /\ p[1].tag = "image"
                                           /\ p[1].href = PlaceholderHref
                             [] OTHER -> TRUE

\* a plate has been rendered whose first tile has a slot with a value for the
\* image and none for the text, and whose second tile has no slot
C21_Witness ==
    /\ fn = "renderPlateSVG"
    /\ Done
    /\ template.tiling.cols = 2
    /\ get_slot(content, 0) # <<>>
    /\ get_slot(content, 1) = <<>>
    /\ \E k, j \in DOMAIN Elements :
           /\ Elements[k].type = "text"
           /\ Elements[j].type = "image"
           /\ SlotValue(Elements[k], 0, 0) = NoValue
           /\ SlotValue(Elements[j], 0, 0) # NoValue
           /\ PrimitivesOf(1, "text", 0, 0, Elements[k].id) # {}
           /\ PrimitivesOf(2, "image", 0, 1, Elements[j].id) # {}

RECURSIVE JoinLines(_)

\* '\n'.join(lines)
JoinLines(lines) ==
    IF Len(lines) = 1 THEN lines[1]
    ELSE lines[1] \o <<"\n">> \o JoinLines(Tail(lines))

\* the multiline text elements of the part that slot 0 holds a text for
Wrapped ==
    {k \in DOMAIN Elements :
        /\ Elements[k].type = "text"
        /\ Elements[k].multiline
        /\ SlotValue(Elements[k], 0, 0).kind = "str"}

C23_InputsUnchanged ==
    [][/\ rects' = rects
       /\ template' = template
       /\ content' = content]_vars

\* a second call of a packer has returned, on the rects of the first call,
\* which are not in sorted order
C23_Witness ==
    /\ call = 2
    /\ Done
    /\ fn \in Fns
    /\ rects = first.rects
    /\ rects # sorted(rects)
    /\ AllPlaced # <<>>

\* an empty bed has a position for the rect inside the margins that overlaps
\* no keepout
Placeable(r) ==
    \E x \in margin..(bed_w - margin - r.w) :
        \E y \in margin..(bed_h - margin - r.h) :
            ~_overlaps_keepouts(x, y, r.w, r.h, keepouts)

\* the input rects that no returned bed holds
Unplaced ==
    {k \in DOMAIN rects :
        \A n \in DOMAIN AllPlaced : RectOf(AllPlaced[n]) # rects[k]}

\* C24: pack_paginated leaves a rect unplaced only if it could not be placed
\* on any bed: every input rect that an empty bed has a position for, inside
\* the margins and clear of the keepouts, is in a returned bed.
C24_PlaceableIsPlaced ==
    (fn = "pack_paginated" /\ Done) =>
        \A k \in Unplaced : ~Placeable(rects[k])

\* the beds of pack_paginated so far, the one being filled included
BedsSoFar == IF pc = "done" THEN beds ELSE Append(beds, placed)

\* b is right of a in its row, or in a row below a, by the gutter at least
Apart(a, b) ==
    \/ a.y = b.y /\ b.x >= a.x + a.w + gutter
    \/ a.y # b.y /\ b.y >= a.y + a.h + gutter

\* C25: within each bed of pack_paginated any two distinct placed rects do
\* not overlap and are separated by the gutter at least: in the same row the
\* right one starts at x >= left.x + left.w + gutter, in different rows the
\* lower one starts at y >= upper.y + upper.h + gutter.
C25_GutterApart ==
    fn = "pack_paginated" =>
        \A n \in DOMAIN BedsSoFar :
            \A a, b \in DOMAIN BedsSoFar[n] :
                LET P == BedsSoFar[n] IN
                a # b =>
                    /\ Apart(P[a], P[b]) \/ Apart(P[b], P[a])
                    /\ \/ P[a].x + P[a].w <= P[b].x
                       \/ P[b].x + P[b].w <= P[a].x
                       \/ P[a].y + P[a].h <= P[b].y
                       \/ P[b].y + P[b].h <= P[a].y

\* a returned bed holds two rects of one row and a rect of the row below,
\* packed with a gutter
C25_Witness ==
    /\ fn = "pack_paginated"
    /\ Done
    /\ gutter > 0
    /\ \E n \in DOMAIN beds : \E a, b, c \in DOMAIN beds[n] :
           /\ beds[n][a].y = beds[n][b].y
           /\ beds[n][a].x < beds[n][b].x
           /\ beds[n][c].y > beds[n][a].y

\* C26: pack_first_fit is the single-bed form of pack_paginated: for the same
\* non-empty input the placed list of pack_first_fit equals the first bed of
\* pack_paginated, with the same ids, x, y, w, h in the same order.
C26_SingleBedForm ==
    (call = 2 /\ Done /\ fn \in Fns /\ first.fn \in Fns \ {fn} /\ rects # <<>>) =>
        IF fn = "pack_first_fit"
        THEN first.ret # <<>> /\ placed = first.ret[1]
        ELSE beds # <<>> /\ beds[1] = first.ret[1]

\* pack_paginated has filled two beds and pack_first_fit, called on the same
\* input after it, has returned placements of two rows and a warning
C26_Witness ==
    /\ call = 2
    /\ Done
    /\ fn = "pack_first_fit"
    /\ first.fn = "pack_paginated"
    /\ Len(first.ret) >= 2
    /\ first.ret[2] # <<>>
    /\ Cardinality(Rows(placed)) >= 2
    /\ warnings # <<>>
    /\ keepouts # <<>>

\* C27: each bed's placement list is in reading order: along the list y never
\* decreases, and among placements with the same y the x values strictly
\* increase.
C27_ReadingOrder ==
    fn = "pack_paginated" =>
        \A n \in DOMAIN BedsSoFar :
            \A a, b \in DOMAIN BedsSoFar[n] :
                LET P == BedsSoFar[n] IN
                a < b =>
                    /\ P[a].y <= P[b].y
                    /\ P[a].y = P[b].y => P[a].x < P[b].x

\* a returned bed lists two rects of its first row and then a rect of its
\* second row
C27_Witness ==
    /\ fn = "pack_paginated"
    /\ Done
    /\ \E n \in DOMAIN beds :
           /\ Len(beds[n]) >= 3
           /\ beds[n][1].y = beds[n][2].y
           /\ beds[n][1].x < beds[n][2].x
           /\ beds[n][3].y > beds[n][2].y

\* C29: in the list returned by pack_paginated no bed other than the last is
\* empty, and the last bed is empty if and only if an input rect was left
\* unplaced; an empty input returns an empty list of beds.
C29_TrailingEmptyBed ==
    (fn = "pack_paginated" /\ Done) =>
        /\ \A n \in 1..(Len(beds) - 1) : beds[n] # <<>>
        /\ (beds # <<>> /\ beds[Len(beds)] = <<>>) <=> Unplaced # {}
        /\ rects = <<>> => beds = <<>>

\* pack_paginated has returned a filled bed and a trailing empty bed for a
\* rect that it dropped
C29_Witness ==
    /\ fn = "pack_paginated"
    /\ Done
    /\ Len(beds) >= 2
    /\ beds[1] # <<>>
    /\ beds[Len(beds)] = <<>>
    /\ Unplaced # {}

\* the rect is no wider and no higher than the bed inside its margins
FitsUsable(r) == r.w <= bed_w - 2 * margin /\ r.h <= bed_h - 2 * margin

\* C30: with no keepouts and gutter > 0 pack_paginated places every rect that
\* fits the usable area on its own, whatever other rects are in the input:
\* the rects it drops are those with w > bed_w - 2*margin or
\* h > bed_h - 2*margin.
C30_FittingIsPlaced ==
    (fn = "pack_paginated" /\ Done /\ keepouts = <<>> /\ gutter > 0) =>
        Unplaced = {k \in DOMAIN rects : ~FitsUsable(rects[k])}

\* without keepouts pack_paginated has dropped a rect too large for the bed,
\* sorted first, and has placed the rects after it on more than one bed
C30_Witness ==
    /\ fn = "pack_paginated"
    /\ Done
    /\ keepouts = <<>>
    /\ gutter > 0
    /\ Len(beds) >= 3
    /\ Len(AllPlaced) >= 2
    /\ Unplaced # {}
    /\ remaining # <<>>
    /\ \A n \in DOMAIN AllPlaced :
           remaining[1].w * remaining[1].h > AllPlaced[n].w * AllPlaced[n].h

\* the data rows of the uploaded file
DataRows == DictReader(request.file)

\* the text that the n-th tile group of the document shows for the element
ShownText(n, element) ==
    LET C == template.tiling.cols
    IN  {p[2].text : p \in PrimitivesOf(n, "text", (n - 1) \div C,
                                        (n - 1) % C, element.id)}

\* C28: upload_csv called with page = p and items_per_page = n <= rows*cols
\* renders the CSV data rows p*n .. p*n + n - 1 that exist into the tiles of
\* the plate, for every p >= 0: the k-th row of the page appears in tile
\* (k div cols, k mod cols).
C28_UploadPagination ==
    (/\ request # <<>>
     /\ Done
     /\ request.page # <<>>
     /\ request.items_per_page # <<>>
     /\ request.items_per_page[1]
            <= template.tiling.rows * template.tiling.cols) =>
        LET p == request.page[1]
            n == request.items_per_page[1]
        IN  \A k \in 0..(n - 1) :
                p * n + k < Len(DataRows) =>
                    ShownText(k + 1, Elements[1])
                        = {escape_xml(DataRows[p * n + k + 1][<<"Name">>])}

====
